---- MODULE Spec2Model ----
(***************************************************************************)
(* react-auto-i18ner: the transformation run of I18nTransformer (the       *)
(* structural strategy, src/src/core/I18nTransformer.ts) and of            *)
(* JavaScriptTransformer (the pattern-based strategy, src/unnamed/part_003)*)
(* with the TextValidator both use.                                        *)
(*                                                                         *)
(* Texts, keys and markup are strings; the regular expressions of the      *)
(* source are operators over the characters of a string.  A source file is *)
(* a record: its import declarations, its top-level declarations and its   *)
(* markup.  A catalog file is an ordered list of (key, value) pairs, the   *)
(* own properties of the parsed JSON object in insertion order.            *)
(***************************************************************************)
EXTENDS Integers, Sequences, FiniteSets, TLC

(***************************************************************************)
(* Characters                                                              *)
(***************************************************************************)
Ch(s, i) == SubSeq(s, i, i)

\* the printable characters of codes 32..95 and 97..126
AsciiLow == " !\"#$%&'()*+,-./0123456789:;<=>?@ABCDEFGHIJKLMNOPQRSTUVWXYZ[\\]^_"
AsciiHigh == "abcdefghijklmnopqrstuvwxyz{|}~"
UpperAZ == "ABCDEFGHIJKLMNOPQRSTUVWXYZ"
LowerAZ == "abcdefghijklmnopqrstuvwxyz"
Base36 == "0123456789abcdefghijklmnopqrstuvwxyz"

CharsOf(s) == {Ch(s, i) : i \in 1..Len(s)}
Digit == CharsOf("0123456789")
Lower == CharsOf(LowerAZ)
Upper == CharsOf(UpperAZ)
\* the letters of the range À-ÿ that the texts of the model use
ExtUpper == {"É"}
ExtLower == {"é"}
Letter == Lower \cup Upper \cup ExtUpper \cup ExtLower
\* \w and \s of a JavaScript regular expression
WordChar == Lower \cup Upper \cup Digit \cup {"_"}
Space == {" ", "\t", "\n", "\r"}

\* String.prototype.charCodeAt for the characters of the model
CharCode == [c \in CharsOf(AsciiLow) \cup CharsOf(AsciiHigh) \cup {"\t", "\n", "\r", "É", "é"} |->
               CASE c = "\t" -> 9
                 [] c = "\n" -> 10
                 [] c = "\r" -> 13
                 [] c = "É" -> 201
                 [] c = "é" -> 233
                 [] c \in CharsOf(AsciiHigh) ->
                      96 + (CHOOSE i \in 1..Len(AsciiHigh) : Ch(AsciiHigh, i) = c)
                 [] OTHER -> 31 + (CHOOSE i \in 1..Len(AsciiLow) : Ch(AsciiLow, i) = c)]

\* String.prototype.toLowerCase
LowerOfChar == [c \in DOMAIN CharCode |->
                 IF c \in Upper
                   THEN Ch(LowerAZ, CHOOSE i \in 1..26 : Ch(UpperAZ, i) = c)
                   ELSE IF c = "É" THEN "é" ELSE c]

\* s with every character c replaced by f[c], halving s to keep the nesting shallow
RECURSIVE MapChars(_, _)
MapChars(f, s) ==
  IF Len(s) = 0 THEN ""
  ELSE IF Len(s) = 1 THEN f[s]
  ELSE MapChars(f, SubSeq(s, 1, Len(s) \div 2))
         \o MapChars(f, SubSeq(s, (Len(s) \div 2) + 1, Len(s)))

toLowerCase(s) == MapChars(LowerOfChar, s)

\* the least and the greatest element of a non-empty set of numbers
Min(S) == CHOOSE x \in S : \A y \in S : x <= y

Max(S) == CHOOSE x \in S : \A y \in S : y <= x

\* String.prototype.trim
trim(s) ==
  LET kept == {i \in 1..Len(s) : Ch(s, i) \notin Space} IN
    IF kept = {} THEN "" ELSE SubSeq(s, Min(kept), Max(kept))

\* String.prototype.includes / startsWith / endsWith
includes(s, sub) ==
  \E i \in 1..(Len(s) - Len(sub) + 1) : SubSeq(s, i, i + Len(sub) - 1) = sub

startsWith(s, sub) == Len(sub) <= Len(s) /\ SubSeq(s, 1, Len(sub)) = sub

endsWith(s, sub) ==
  Len(sub) <= Len(s) /\ SubSeq(s, Len(s) - Len(sub) + 1, Len(s)) = sub

AllIn(s, set) == \A i \in 1..Len(s) : Ch(s, i) \in set

\* the index of the first character of s at or after i that is in set; 0 if none
FirstIn(s, i, set) ==
  LET hits == {j \in i..Len(s) : Ch(s, j) \in set} IN
    IF hits = {} THEN 0 ELSE Min(hits)

\* the index of the first character of s at or after i that is not in set; Len(s)+1 if none
FirstNotIn(s, i, set) ==
  LET hits == {j \in i..Len(s) : Ch(s, j) \notin set} IN
    IF hits = {} THEN Len(s) + 1 ELSE Min(hits)

\* the order of Array.prototype.sort() on strings: by UTF-16 code unit
StrLess(a, b) ==
  LET n == IF Len(a) < Len(b) THEN Len(a) ELSE Len(b)
      differ == {i \in 1..n : Ch(a, i) # Ch(b, i)}
  IN IF differ = {} THEN Len(a) < Len(b)
     ELSE CharCode[Ch(a, Min(differ))] < CharCode[Ch(b, Min(differ))]

(***************************************************************************)
(* TextValidator                                                           *)
(***************************************************************************)
\* ConfigManager.getDefaultTechnicalTerms: the Set is built from the list as written
technicalTerms ==
  {"true", "false", "null", "undefined", "NaN", "auto", "none", "inherit",
   "initial", "unset", "block", "inline", "flex", "grid", "center", "left",
   "right", "top", "bottom", "submit", "button", "text", "email", "password",
   "loading", "error", "success", "warning", "info", "debug", "GET", "POST",
   "PUT", "DELETE", "PATCH", "HEAD", "OPTIONS", "React", "Component",
   "useState", "useEffect", "useCallback", "useMemo", "JSX", "HTML", "CSS",
   "JavaScript", "TypeScript", "JSON", "XML", "API", "HTTP", "HTTPS", "URL",
   "URI", "DOM", "BOM"}

\* /^\d+(\.\d+)?$/
IsNumber(s) ==
  LET dot == FirstIn(s, 1, {"."}) IN
    IF dot = 0
      THEN s # "" /\ AllIn(s, Digit)
      ELSE /\ dot > 1
           /\ dot < Len(s)
           /\ AllIn(SubSeq(s, 1, dot - 1), Digit)
           /\ AllIn(SubSeq(s, dot + 1, Len(s)), Digit)

\* /\.[a-zA-Z]{2,4}$/
EndsWithExtension(s) ==
  \E n \in 2..4 :
    /\ Len(s) >= n + 1
    /\ Ch(s, Len(s) - n) = "."
    /\ AllIn(SubSeq(s, Len(s) - n + 1, Len(s)), Lower \cup Upper)

isPath(text) ==
  \/ text # "" /\ Ch(text, 1) \in {".", "/"}
  \/ Len(text) >= 3 /\ Ch(text, 1) \in Lower \cup Upper /\ SubSeq(text, 2, 3) = ":\\"
  \/ startsWith(text, "http://") \/ startsWith(text, "https://")
  \/ startsWith(text, "www.")
  \/ includes(text, "/") /\ ~includes(text, " ")
  \/ EndsWithExtension(text)

\* rule template-literal: /'\s*\+\s*|'\s*\+\s*'/
RuleTemplateLiteral(s) ==
  \E i \in 1..Len(s) :
    /\ Ch(s, i) = "'"
    /\ LET j == FirstNotIn(s, i + 1, Space) IN j <= Len(s) /\ Ch(s, j) = "+"

\* rule conditional-expression: /\?\s*\(|\)\s*:/
RuleConditional(s) ==
  \E i \in 1..Len(s) :
    /\ Ch(s, i) \in {"?", ")"}
    /\ LET j == FirstNotIn(s, i + 1, Space) IN
         /\ j <= Len(s)
         /\ \/ Ch(s, i) = "?" /\ Ch(s, j) = "("
            \/ Ch(s, i) = ")" /\ Ch(s, j) = ":"

\* rule jsx-expression: /\{|\}|<|>/
RuleJsxExpression(s) == \E i \in 1..Len(s) : Ch(s, i) \in {"{", "}", "<", ">"}

codeKeywords ==
  {"import", "export", "const", "let", "var", "function", "class", "return",
   "if", "else", "for", "while", "switch", "case", "break", "continue", "try",
   "catch", "finally", "throw", "async", "await", "typeof", "instanceof"}

\* rule code-keywords: /\b(import|export|...)\b/
RuleCodeKeywords(s) ==
  \E i \in 1..Len(s) :
    /\ (i = 1 \/ Ch(s, i - 1) \notin WordChar)
    /\ \E kw \in codeKeywords :
         /\ i + Len(kw) - 1 <= Len(s)
         /\ SubSeq(s, i, i + Len(kw) - 1) = kw
         /\ (i + Len(kw) > Len(s) \/ Ch(s, i + Len(kw)) \notin WordChar)

\* rule css-units: /^\d+(px|em|rem|vh|vw|%|deg|s|ms)$/i
RuleCssUnits(s) ==
  \E u \in {"px", "em", "rem", "vh", "vw", "%", "deg", "s", "ms"} :
    /\ Len(s) > Len(u)
    /\ toLowerCase(SubSeq(s, Len(s) - Len(u) + 1, Len(s))) = u
    /\ AllIn(SubSeq(s, 1, Len(s) - Len(u)), Digit)

\* rule css-classes: /^(h-|w-|px-|py-|mx-|my-|bg-|text-|border-|rounded-|flex|grid|block|inline|hidden)/
RuleCssClasses(s) ==
  \E p \in {"h-", "w-", "px-", "py-", "mx-", "my-", "bg-", "text-", "border-",
            "rounded-", "flex", "grid", "block", "inline", "hidden"} :
    startsWith(s, p)

\* rule hex-colors: /^#[0-9a-fA-F]{3,8}$/
RuleHexColors(s) ==
  /\ Len(s) \in 4..9
  /\ Ch(s, 1) = "#"
  /\ AllIn(SubSeq(s, 2, Len(s)), Digit \cup CharsOf("abcdefABCDEF"))

\* rule urls: /^https?:\/\/|^www\.|^\/[\/\w.-]+/
RuleUrls(s) ==
  \/ startsWith(s, "http://") \/ startsWith(s, "https://")
  \/ startsWith(s, "www.")
  \/ Len(s) >= 2 /\ Ch(s, 1) = "/" /\ Ch(s, 2) \in WordChar \cup {"/", ".", "-"}

\* ConfigManager.getDefaultValidationRules, in order
validationRules ==
  << [name |-> "template-literal", severity |-> "error",
      description |-> "Template literal fragments"],
     [name |-> "conditional-expression", severity |-> "error",
      description |-> "Conditional expressions"],
     [name |-> "jsx-expression", severity |-> "error",
      description |-> "JSX expressions or HTML tags"],
     [name |-> "code-keywords", severity |-> "error",
      description |-> "JavaScript/TypeScript keywords"],
     [name |-> "css-units", severity |-> "warning", description |-> "CSS units"],
     [name |-> "css-classes", severity |-> "warning", description |-> "CSS class names"],
     [name |-> "hex-colors", severity |-> "info", description |-> "Hex color codes"],
     [name |-> "urls", severity |-> "info", description |-> "URLs and file paths"] >>

\* rule.pattern.test(text)
RuleTest(name, s) ==
  CASE name = "template-literal" -> RuleTemplateLiteral(s)
    [] name = "conditional-expression" -> RuleConditional(s)
    [] name = "jsx-expression" -> RuleJsxExpression(s)
    [] name = "code-keywords" -> RuleCodeKeywords(s)
    [] name = "css-units" -> RuleCssUnits(s)
    [] name = "css-classes" -> RuleCssClasses(s)
    [] name = "hex-colors" -> RuleHexColors(s)
    [] name = "urls" -> RuleUrls(s)

\* the custom skip patterns a configuration of the model may hold
\* (ConfigManager.createSampleConfig, and one that does not compile)
PatternCompiles(pattern) == pattern # "["

\* new RegExp(pattern).test(text)
PatternTest(pattern, s) ==
  CASE pattern = "^\\d+$" -> s # "" /\ AllIn(s, Digit)
    [] pattern = "^[A-Z_]+$" -> s # "" /\ AllIn(s, Upper \cup {"_"})
    [] pattern = "^\\w+\\.(js|ts|tsx|jsx)$" ->
         \E ext \in {".js", ".ts", ".tsx", ".jsx"} :
           /\ Len(s) > Len(ext)
           /\ endsWith(s, ext)
           /\ AllIn(SubSeq(s, 1, Len(s) - Len(ext)), WordChar)
    [] OTHER -> FALSE

\* a loop over the custom patterns that the first pattern that does not
\* compile ends
MatchesCustomPatternUntilThrow(patterns, s) ==
  \E i \in 1..Len(patterns) :
    /\ \A j \in 1..i : PatternCompiles(patterns[j])
    /\ PatternTest(patterns[i], s)

\* the loop over customSkipPatterns: a pattern that does not compile is
\* caught and passed over
MatchesCustomPattern(patterns, s) ==
  \E i \in 1..Len(patterns) : PatternCompiles(patterns[i]) /\ PatternTest(patterns[i], s)

\* the first rule that matches, whatever its severity, 0 if none
FirstRuleOfAnySeverity(s) ==
  LET hit == {i \in 1..Len(validationRules) : RuleTest(validationRules[i].name, s)}
  IN IF hit = {} THEN 0 ELSE CHOOSE i \in hit : \A j \in hit : i <= j

\* the first error-severity rule that matches, 0 if none
FirstErrorRule(s) ==
  LET hit == {i \in 1..Len(validationRules) :
                validationRules[i].severity = "error" /\ RuleTest(validationRules[i].name, s)}
  IN IF hit = {} THEN 0 ELSE CHOOSE i \in hit : \A j \in hit : i <= j

\* isValidTranslationText: the reason recorded by recordSkip, "" when the text is accepted
SkipReason(text, v) ==
  LET cleanText == trim(text) IN
    IF text = "" THEN "empty-or-invalid"
    ELSE IF Len(cleanText) < v.minLength THEN "too-short"
    ELSE IF Len(cleanText) > v.maxLength THEN "too-long"
    ELSE IF v.skipTechnicalTerms /\ toLowerCase(cleanText) \in technicalTerms
      THEN "technical-term"
    ELSE IF v.skipNumbers /\ IsNumber(cleanText) THEN "number"
    ELSE IF v.skipPaths /\ isPath(cleanText) THEN "path"
    ELSE IF v.skipCodeFragments /\ FirstErrorRule(cleanText) # 0
      THEN "rule-" \o validationRules[FirstErrorRule(cleanText)].name
    ELSE IF MatchesCustomPattern(v.customSkipPatterns, cleanText) THEN "custom-pattern"
    ELSE IF ~\E i \in 1..Len(cleanText) : Ch(cleanText, i) \in Letter THEN "no-letters"
    ELSE IF AllIn(cleanText, DOMAIN CharCode \ (WordChar \cup Space)) THEN "symbols-only"
    ELSE ""

isValidTranslationText(text, v) == SkipReason(text, v) = ""

\* reasons is a Map from reason to count: a list of entries in insertion order
ReasonCount(reasons, reason) ==
  IF \E i \in 1..Len(reasons) : reasons[i].reason = reason
    THEN reasons[CHOOSE i \in 1..Len(reasons) : reasons[i].reason = reason].count
    ELSE 0

\* a recordSkip that leaves the total as it is
recordSkipUncounted(val, reason) ==
  [val EXCEPT !.reasons =
     IF \E i \in 1..Len(@) : @[i].reason = reason
       THEN [i \in 1..Len(@) |-> IF @[i].reason = reason
                                   THEN [reason |-> reason, count |-> @[i].count + 1]
                                   ELSE @[i]]
       ELSE Append(@, [reason |-> reason, count |-> 1])]

\* recordSkip, on a validator val = [validation, skippedCount, reasons, ...]
recordSkip(val, reason) ==
  [val EXCEPT !.skippedCount = @ + 1,
              !.reasons =
                IF \E i \in 1..Len(@) : @[i].reason = reason
                  THEN [i \in 1..Len(@) |-> IF @[i].reason = reason
                                              THEN [reason |-> reason, count |-> @[i].count + 1]
                                              ELSE @[i]]
                  ELSE Append(@, [reason |-> reason, count |-> 1])]

\* resetStats
resetStats(val) == [val EXCEPT !.skippedCount = 0, !.reasons = <<>>]

\* the validator after isValidTranslationText(text), reason being what
\* SkipReason gives
Skipped(val, reason) == IF reason = "" THEN val ELSE recordSkip(val, reason)

\* /^[A-Z_]+$/
IsConstantName(s) == s # "" /\ AllIn(s, Upper \cup {"_"})

\* validateWithDetails: what it returns
validateWithDetails(text, v) ==
  IF ~isValidTranslationText(text, v)
    THEN [valid |-> FALSE, warnings |-> <<>>, errors |-> <<"Text failed basic validation">>,
          suggestions |-> <<>>]
    ELSE LET cleanText == trim(text)
             matched == SelectSeq(validationRules,
                                  LAMBDA r : r.severity = "warning" /\ RuleTest(r.name, cleanText))
         IN [valid |-> TRUE,
             warnings |-> [i \in 1..Len(matched) |->
                             matched[i].description \o ": " \o matched[i].name],
             errors |-> <<>>,
             suggestions |->
               (IF Len(cleanText) < 5
                  THEN <<"Consider if this short text needs translation">> ELSE <<>>)
               \o (IF IsConstantName(cleanText)
                     THEN <<"This looks like a constant - consider if it should be translated">>
                     ELSE <<>>)
               \o (IF includes(cleanText, "TODO") \/ includes(cleanText, "FIXME")
                     THEN <<"Contains development notes - may not need translation">>
                     ELSE <<>>)]

\* /\.\w+\(|\.\w+\[|\[\w+\]/
IsCallOrAccess(s) ==
  \E i \in 1..Len(s) :
    LET j == FirstNotIn(s, i + 1, WordChar) IN
      /\ j > i + 1
      /\ j <= Len(s)
      /\ \/ Ch(s, i) = "." /\ Ch(s, j) \in {"(", "["}
         \/ Ch(s, i) = "[" /\ Ch(s, j) = "]"

IncludesAny(s, subs) == \E sub \in subs : includes(s, sub)

\* isCodeFragment: codePatterns.some(pattern => pattern.test(text))
isCodeFragment(text) ==
  \/ RuleTemplateLiteral(text)
  \/ \E i \in 1..Len(text) :
       /\ Ch(text, i) = "+"
       /\ LET j == FirstNotIn(text, i + 1, Space) IN j <= Len(text) /\ Ch(text, j) = "'"
  \/ RuleConditional(text) \/ IncludesAny(text, {"&&", "||"})
  \/ IsCallOrAccess(text)
  \/ IncludesAny(text, {"React.", "useState", "useEffect", "className", "onClick", "onChange"})
  \/ IncludesAny(text, {"React.ReactElement", "FieldPath", "VariantProps"})
  \/ IncludesAny(text, {"this.", ".x", ".y"})
  \/ IncludesAny(text, {"{", "}", "[", "]", "import ", "export ", "const ", "let ",
                        "function", "=>"})
  \/ IncludesAny(text, {"<", ">"})
  \/ IncludesAny(text, {"\r", "\n", "\t"})

(***************************************************************************)
(* TextValidator.suggestKeyName and the key strategies                     *)
(***************************************************************************)
\* a 32-bit integer is held as two 16-bit halves, so that no intermediate
\* value leaves the range of the checker's integers
Half == 65536

\* one round of createHash: hash = ((hash << 5) - hash + char) & itself
HashStep(h, code) ==
  LET lo == h.lo * 31 + code
      hi == h.hi * 31 + (lo \div Half)
  IN [hi |-> hi % Half, lo |-> lo % Half]

\* the rounds i..j of the loop of createHash, in order, from the hash h (the
\* first test also has h computed before the later rounds are entered)
RECURSIVE HashRounds(_, _, _, _)
HashRounds(text, i, j, h) ==
  IF i > j \/ h.hi >= Half THEN h
  ELSE IF i = j THEN HashStep(h, CharCode[Ch(text, i)])
  ELSE HashRounds(text, ((i + j) \div 2) + 1, j, HashRounds(text, i, (i + j) \div 2, h))

\* Number.prototype.toString(36) of a non-negative integer
RECURSIVE ToBase36(_)
ToBase36(n) ==
  IF n < 36 THEN Ch(Base36, n + 1)
  ELSE ToBase36(n \div 36) \o Ch(Base36, (n % 36) + 1)

\* Math.abs(hash).toString(36), hash being the signed reading of the two halves
AbsBase36(h) ==
  IF h.hi < 32768 THEN ToBase36(h.hi * Half + h.lo)
  ELSE IF h.hi = 32768 /\ h.lo = 0 THEN "zik0zk"
  ELSE ToBase36((Half - 1 - h.hi) * Half + (Half - h.lo))

createHash(text) == "text_" \o AbsBase36(HashRounds(text, 1, Len(text), [hi |-> 0, lo |-> 0]))

\* s.replace(/[^...]/g, ''): the characters of s that are in keep
KeepChars(s, keep) == MapChars([c \in DOMAIN CharCode |-> IF c \in keep THEN c ELSE ""], s)

\* text.split(/\s+/)
RECURSIVE SplitSpaces(_)
SplitSpaces(s) ==
  LET sp == FirstIn(s, 1, Space) IN
    IF sp = 0 THEN <<s>>
    ELSE <<SubSeq(s, 1, sp - 1)>> \o SplitSpaces(SubSeq(s, FirstNotIn(s, sp, Space), Len(s)))

\* words.join('_')
RECURSIVE JoinUnderscore(_)
JoinUnderscore(words) ==
  IF words = <<>> THEN ""
  ELSE IF Len(words) = 1 THEN words[1]
  ELSE words[1] \o "_" \o JoinUnderscore(Tail(words))

\* s.replace(/\s+/g, '_'): every run of white space becomes one "_"
UnderscoreSpaces(s) == JoinUnderscore(SplitSpaces(s))

PathKeyMaxLength == 50

createPathBasedKey(text) ==
  LET k == UnderscoreSpaces(trim(KeepChars(toLowerCase(text), Lower \cup Digit \cup Space)))
  IN IF Len(k) > PathKeyMaxLength THEN SubSeq(k, 1, PathKeyMaxLength) ELSE k

CustomKeyWords == 3

createCustomKey(text) ==
  LET all == SplitSpaces(text)
      words == SubSeq(all, 1, IF Len(all) < CustomKeyWords THEN Len(all) ELSE CustomKeyWords)
      clean == [i \in 1..Len(words) |-> KeepChars(toLowerCase(words[i]), Lower)]
  IN JoinUnderscore(SelectSeq(clean, LAMBDA w : w # ""))

suggestKeyName(text, strategy) ==
  LET cleanText == trim(text) IN
    CASE strategy = "hash" -> createHash(cleanText)
      [] strategy = "path" -> createPathBasedKey(cleanText)
      [] strategy = "custom" -> createCustomKey(cleanText)
      [] OTHER -> cleanText

(***************************************************************************)
(* Map<string, string> and plain objects                                   *)
(***************************************************************************)
\* translationKeys is a Map from text to key: a list of entries in insertion order
MapHas(m, text) == \E i \in 1..Len(m) : m[i].text = text

MapGet(m, text) == m[CHOOSE i \in 1..Len(m) : m[i].text = text].key

MapSet(m, text, key) ==
  IF MapHas(m, text)
    THEN [i \in 1..Len(m) |-> IF m[i].text = text THEN [text |-> text, key |-> key] ELSE m[i]]
    ELSE Append(m, [text |-> text, key |-> key])

\* a plain object: the list of its own (key, value) properties in insertion order
ObjHas(o, key) == \E i \in 1..Len(o) : o[i].key = key

ObjGet(o, key) == o[CHOOSE i \in 1..Len(o) : o[i].key = key].value

\* obj[key] = value
ObjSet(o, key, value) ==
  IF ObjHas(o, key)
    THEN [i \in 1..Len(o) |-> IF o[i].key = key THEN [key |-> key, value |-> value] ELSE o[i]]
    ELSE Append(o, [key |-> key, value |-> value])

ObjKeys(o) == {o[i].key : i \in 1..Len(o)}

\* the properties every object inherits from Object.prototype: obj[key] reads
\* them when obj has no own property of that name, and they are truthy
ObjectPrototypeKeys ==
  {"constructor", "toString", "valueOf", "hasOwnProperty", "isPrototypeOf",
   "propertyIsEnumerable", "toLocaleString"}

\* the truth value of obj[key], the values of a catalog being strings
Truthy(o, key) ==
  IF ObjHas(o, key) THEN ObjGet(o, key) # "" ELSE key \in ObjectPrototypeKeys

\* sortObjectKeys: the properties re-inserted in the order of Object.keys(obj).sort()
RECURSIVE SortByKey(_)
SortByKey(o) ==
  IF o = <<>> THEN <<>>
  ELSE LET m == CHOOSE i \in 1..Len(o) :
                  \A j \in 1..Len(o) : j = i \/ StrLess(o[i].key, o[j].key)
       IN <<o[m]>> \o SortByKey([i \in 1..(Len(o) - 1) |-> IF i < m THEN o[i] ELSE o[i + 1]])

sortObjectKeys(o) == SortByKey(o)


(***************************************************************************)
(* The Key Registry                                                        *)
(***************************************************************************)
\* getOrCreateKey, on a registry r = [keys, log]: keys is translationKeys, log
\* lists every call of the run as (text, key returned); the result adds the
\* key returned as field key
\* the registry after a call that returned key for cleanText
Resolved(r, cleanText, key) ==
  [keys |-> IF MapHas(r.keys, cleanText) THEN r.keys ELSE MapSet(r.keys, cleanText, key),
   log |-> Append(r.log, [text |-> cleanText, key |-> key]),
   key |-> key]

ResolveClean(r, cleanText, strategy) ==
  Resolved(r, cleanText,
           IF MapHas(r.keys, cleanText)
             THEN MapGet(r.keys, cleanText)
             ELSE suggestKeyName(cleanText, strategy))

getOrCreateKey(r, text, strategy) == ResolveClean(r, trim(text), strategy)

(***************************************************************************)
(* The regular expressions over a file's text                              *)
(***************************************************************************)
\* />([^<>{]+)</ at i: the index of the closing "<", 0 if there is no match at i
JsxTextEnd(s, i) ==
  IF Ch(s, i) # ">" THEN 0
  ELSE LET e == FirstIn(s, i + 1, {"<", ">", "{"}) IN
         IF e > i + 1 /\ Ch(s, e) = "<" THEN e ELSE 0

\* the first index in i..n at which Hit holds, 0 if there is none
FirstAt(i, n, Hit(_)) ==
  LET hits == {j \in i..n : Hit(j)} IN
    IF hits = {} THEN 0 ELSE Min(hits)

\* the matches of the global pattern, left to right: from is the ">", to the "<"
RECURSIVE JsxTextMatches(_, _)
JsxTextMatches(s, i) ==
  LET at == FirstAt(i, Len(s), LAMBDA j : JsxTextEnd(s, j) # 0)
      e == JsxTextEnd(s, at)
  IN IF at = 0 THEN <<>>
     ELSE <<[from |-> at, textFrom |-> at + 1, textTo |-> e - 1, to |-> e]>>
            \o JsxTextMatches(s, e + 1)

attributeNames == <<"placeholder", "title", "alt", "aria-label">>

\* /name=["']([^"']+)["']/ at i: the index of the closing quote, 0 if no match at i
AttributeEnd(s, i, name) ==
  LET q == i + Len(name) + 1 IN
    IF q + 2 > Len(s) THEN 0
    ELSE IF SubSeq(s, i, q - 1) # name \o "=" THEN 0
    ELSE IF Ch(s, q) \notin {"\"", "'"} THEN 0
    ELSE LET e == FirstIn(s, q + 1, {"\"", "'"}) IN IF e > q + 1 THEN e ELSE 0

RECURSIVE AttributeMatches(_, _, _)
AttributeMatches(s, i, name) ==
  LET at == FirstAt(i, Len(s), LAMBDA j : AttributeEnd(s, j, name) # 0)
      e == AttributeEnd(s, at, name)
  IN IF at = 0 THEN <<>>
     ELSE <<[from |-> at, textFrom |-> at + Len(name) + 2, textTo |-> e - 1, to |-> e]>>
            \o AttributeMatches(s, e + 1, name)

\* /<([Bb]utton[^>]*)>([^<]+)<\/[Bb]utton>/ at i: the match, or to = 0
ButtonMatchAt(s, i) ==
  LET none == [from |-> i, textFrom |-> 0, textTo |-> 0, to |-> 0]
      gt == FirstIn(s, i + 7, {">"})
      lt == IF gt = 0 THEN 0 ELSE FirstIn(s, gt + 1, {"<"})
  IN IF i + 6 > Len(s) THEN none
     ELSE IF SubSeq(s, i, i + 6) \notin {"<button", "<Button"} THEN none
     ELSE IF gt = 0 \/ lt = 0 \/ lt < gt + 2 \/ lt + 8 > Len(s) THEN none
     ELSE IF SubSeq(s, lt, lt + 8) \notin {"</button>", "</Button>"} THEN none
     ELSE [from |-> i, textFrom |-> gt + 1, textTo |-> lt - 1, to |-> lt + 8]

RECURSIVE ButtonMatches(_, _)
ButtonMatches(s, i) ==
  LET at == FirstAt(i, Len(s), LAMBDA j : ButtonMatchAt(s, j).to # 0)
      m == ButtonMatchAt(s, at)
  IN IF at = 0 THEN <<>> ELSE <<m>> \o ButtonMatches(s, m.to + 1)

\* key.replace(/'/g, "\\'")
EscapeQuotes(k) == MapChars([c \in DOMAIN CharCode |-> IF c = "'" THEN "\\'" ELSE c], k)

\* a translation call written without the braces of a JSX expression
TranslationCallBare(key) == "t('" \o EscapeQuotes(key) \o "')"

\* the translation call written in place of a fragment
TranslationCall(key) == "{t('" \o EscapeQuotes(key) \o "')}"

\* the "already transformed" test of the replace callbacks
AlreadyTransformed(match) == includes(match, "{t('") \/ includes(match, "t(\"")

(***************************************************************************)
(* transformJSXElements (both strategies) and extractTexts (structural)    *)
(***************************************************************************)
\* The callbacks of content.replace.  acc holds the registry (keys, log), the
\* count and, in out, the content built so far; a callback returns acc with
\* out the text that replaces the match.

\* the "already transformed or contains JSX" test of a callback
Guarded(kind, match, text) ==
  IF kind = "button"
    THEN includes(text, "{t('") \/ includes(text, "t(\"") \/ includes(text, "{")
    ELSE AlreadyTransformed(match)

\* what a callback returns for an accepted fragment; head is the match up to
\* the fragment
Replacement(kind, head, key) ==
  CASE kind = "jsx-text" -> ">" \o TranslationCall(key) \o "<"
    [] kind = "attribute" ->
         SubSeq(head, 1, FirstIn(head, 1, {"="}) - 1) \o "=" \o TranslationCall(key)
    [] kind = "button" ->
         head \o TranslationCall(key) \o "</"
           \o SubSeq(head, 2, FirstIn(head \o " ", 1, {" ", ">"}) - 1) \o ">"

Replaced(kind, head, r, count) ==
  [keys |-> r.keys, log |-> r.log, count |-> count + 1,
   out |-> Replacement(kind, head, r.key)]

\* checked is what the callback validates and resolves: the element-text and
\* button callbacks trim first
ReplaceChecked(kind, match, text, head, checked, acc, cfg) ==
  IF Guarded(kind, match, text) \/ ~isValidTranslationText(checked, cfg.validation)
    THEN [acc EXCEPT !.out = match]
    ELSE Replaced(kind, head, getOrCreateKey(acc, checked, cfg.keyStrategy), acc.count)

ReplaceMatch(kind, match, text, head, acc, cfg) ==
  ReplaceChecked(kind, match, text, head,
                 IF kind = "attribute" THEN text ELSE trim(text), acc, cfg)

Replacer(kind, s, m, acc, cfg) ==
  ReplaceMatch(kind, SubSeq(s, m.from, m.to), SubSeq(s, m.textFrom, m.textTo),
               SubSeq(s, m.from, m.textFrom - 1), acc, cfg)

\* content.replace(pattern, callback): st is acc with n, the match the scan is
\* at, and pos, the index in s from which the content is still to be copied
RECURSIVE ReplaceAll(_, _, _, _, _)
RECURSIVE ReplaceNext(_, _, _, _, _, _)
ReplaceAll(kind, s, ms, st, cfg) ==
  IF st.n > Len(ms)
    THEN [st EXCEPT !.out = @ \o SubSeq(s, st.pos, Len(s))]
    ELSE ReplaceNext(kind, s, ms, st, Replacer(kind, s, ms[st.n], st, cfg), cfg)

\* r is what the callback returned for match st.n
ReplaceNext(kind, s, ms, st, r, cfg) ==
  ReplaceAll(kind, s, ms,
             [keys |-> r.keys, log |-> r.log, count |-> r.count,
              out |-> st.out \o SubSeq(s, st.pos, ms[st.n].from - 1) \o r.out,
              n |-> st.n + 1, pos |-> ms[st.n].to + 1],
             cfg)

ReplacePass(kind, s, ms, acc, cfg) ==
  ReplaceAll(kind, s, ms,
             [keys |-> acc.keys, log |-> acc.log, count |-> acc.count, out |-> "",
              n |-> 1, pos |-> 1],
             cfg)

\* the three passes, each over the content the pass before it left in acc.out
JsxTextPass(acc, cfg) ==
  ReplacePass("jsx-text", acc.out, JsxTextMatches(acc.out, 1), acc, cfg)

\* a rewrite that leaves the attributes alone
AttributePassesNone(a, acc, cfg) == acc

RECURSIVE AttributePasses(_, _, _)
AttributePasses(a, acc, cfg) ==
  IF a > Len(attributeNames) THEN acc
  ELSE AttributePasses(a + 1,
         ReplacePass("attribute", acc.out, AttributeMatches(acc.out, 1, attributeNames[a]),
                     acc, cfg),
         cfg)

ButtonPass(strat, acc, cfg) ==
  IF strat = "pattern"
    THEN ReplacePass("button", acc.out, ButtonMatches(acc.out, 1), acc, cfg)
    ELSE acc

\* transformJSXElements: [out, count, keys, log]; the button pass is the
\* pattern-based strategy's only
transformJSXElements(strat, content, reg, cfg) ==
  ButtonPass(strat,
             AttributePasses(1,
               JsxTextPass([keys |-> reg.keys, log |-> reg.log, count |-> 0, out |-> content],
                           cfg),
               cfg),
             cfg)

\* an extraction: the registry after resolving an accepted text
Extracted(r, acc) ==
  [keys |-> r.keys, log |-> r.log, count |-> acc.count + 1, n |-> acc.n + 1]

\* acc is [keys, log, count, n]: n is the match the loop is at
ExtractText(text, acc, cfg) ==
  IF isValidTranslationText(text, cfg.validation)
    THEN Extracted(getOrCreateKey(acc, text, cfg.keyStrategy), acc)
    ELSE [acc EXCEPT !.n = @ + 1]

\* extractJSXText / extractAttributes over the matches ms
RECURSIVE ExtractFrom(_, _, _, _)
ExtractFrom(s, ms, acc, cfg) ==
  IF acc.n > Len(ms) THEN acc
  ELSE ExtractFrom(s, ms,
                   ExtractText(trim(SubSeq(s, ms[acc.n].textFrom, ms[acc.n].textTo)), acc, cfg),
                   cfg)

RECURSIVE ExtractAttributes(_, _, _, _)
ExtractAttributes(s, a, acc, cfg) ==
  IF a > Len(attributeNames) THEN acc
  ELSE ExtractAttributes(s, a + 1,
         ExtractFrom(s, AttributeMatches(s, 1, attributeNames[a]), [acc EXCEPT !.n = 1], cfg),
         cfg)

ExtractJSXText(s, acc, cfg) ==
  IF cfg.extractJSXText THEN ExtractFrom(s, JsxTextMatches(s, 1), acc, cfg) ELSE acc

ExtractAttributesIf(s, acc, cfg) ==
  IF cfg.extractAttributes THEN ExtractAttributes(s, 1, acc, cfg) ELSE acc

\* extractTexts: [keys, log, count], count the number of extractions
extractTexts(content, reg, cfg) ==
  ExtractAttributesIf(content,
    ExtractJSXText(content, [keys |-> reg.keys, log |-> reg.log, count |-> 0, n |-> 1], cfg),
    cfg)

\* hasExtractableText
hasExtractableText(content, cfg) ==
  \/ LET ms == JsxTextMatches(content, 1) IN
       \E n \in 1..Len(ms) :
         isValidTranslationText(SubSeq(content, ms[n].textFrom, ms[n].textTo), cfg.validation)
  \/ \E a \in 1..Len(attributeNames) :
       LET ms == AttributeMatches(content, 1, attributeNames[a]) IN
         \E n \in 1..Len(ms) :
           isValidTranslationText(SubSeq(content, ms[n].textFrom, ms[n].textTo), cfg.validation)


(***************************************************************************)
(* Source files                                                            *)
(*                                                                         *)
(* A file is [imports, decls, comp, wrapped, jsx]:                         *)
(*   imports  the import declarations in order, each [names, module];      *)
(*   decls    the top-level declarations in order, each                    *)
(*            [form, export, block, paramsBrace, hooks, paramHooks]:       *)
(*            form is "function", "arrow" (a const bound to an arrow       *)
(*            function), "class" (a class extending Component); export is  *)
(*            "none", "named", "inline" (export default function ...) or   *)
(*            "statement" (a trailing `export default Name;`); block says  *)
(*            whether the body is a block; paramsBrace whether the         *)
(*            parameter list destructures; hooks counts the statements     *)
(*            `const { t } = useTranslation();` at the head of the body,   *)
(*            paramHooks those that landed inside the parameter list;      *)
(*   comp     the index of the declaration whose body holds the markup;    *)
(*   wrapped  whether the default export is wrapped in withTranslation();  *)
(*   jsx      the markup.  Outside the markup the text of a file holds no  *)
(*            ">" followed by text and "<", and no attribute of            *)
(*            attributeNames, so the patterns match in the markup only.    *)
(***************************************************************************)
I18nModule == "react-i18next"

\* config.components.customHookImport || 'react-i18next'
HookModule(cfg) == IF cfg.customHookImport # "" THEN cfg.customHookImport ELSE I18nModule

\* seq with x inserted so that it gets the 0-based index at
InsertAt(seq, at, x) == SubSeq(seq, 1, at) \o <<x>> \o SubSeq(seq, at + 1, Len(seq))

\* structural: the import test of analyzeComponent and shouldAddImport
TsHasTranslationImport(f, cfg) ==
  \E i \in 1..Len(f.imports) :
    f.imports[i].module = I18nModule \/ f.imports[i].module = cfg.customHookImport

\* I18nTransformer.analyzeComponent
TsAnalyzeComponent(f, cfg) ==
  LET functions == {i \in 1..Len(f.decls) : f.decls[i].form = "function"}
      variableStatements == {i \in 1..Len(f.decls) : f.decls[i].form = "arrow"}
      classes == {i \in 1..Len(f.decls) : f.decls[i].form = "class"}
  IN [hasUseTranslation |-> TsHasTranslationImport(f, cfg),
      needsTranslation |-> hasExtractableText(f.jsx, cfg),
      type |-> IF functions # {} THEN "function"
               ELSE IF variableStatements # {} THEN "arrow"
               ELSE IF \E i \in classes : f.decls[i].export # "none" THEN "class"
               ELSE "function"]

\* I18nTransformer.shouldAddImport
TsShouldAddImport(f, cfg) == ~TsHasTranslationImport(f, cfg)

\* I18nTransformer.addTranslationImport: after the last import of a module
\* that includes 'react' or starts with '@/' or './', else first
TsAddTranslationImport(f, cfg) ==
  LET near == {i \in 1..Len(f.imports) :
                 \/ includes(f.imports[i].module, "react")
                 \/ startsWith(f.imports[i].module, "@/")
                 \/ startsWith(f.imports[i].module, "./")}
      insertIndex == IF near = {} THEN 0 ELSE CHOOSE i \in near : \A j \in near : j <= i
  IN [f EXCEPT !.imports =
        InsertAt(@, insertIndex, [names |-> "useTranslation", module |-> HookModule(cfg)])]

\* shouldAddHook; hookInContent is the pattern-based strategy's extra test
shouldAddHook(info, hookInContent, cfg) ==
  /\ cfg.addUseTranslationHook
  /\ ~info.hasUseTranslation
  /\ info.needsTranslation
  /\ ~(info.type = "class" /\ ~cfg.supportClassComponents)
  /\ ~hookInContent

WithHook(f, i) == [f EXCEPT !.decls[i].hooks = @ + 1]

\* I18nTransformer.addFunctionComponentHook: the first exported function with
\* a block body, else the first variable bound to an arrow function with a
\* block body, else nothing
TsAddFunctionComponentHook(f) ==
  LET funcs == {i \in 1..Len(f.decls) :
                  f.decls[i].form = "function" /\ f.decls[i].export # "none" /\ f.decls[i].block}
      arrows == {i \in 1..Len(f.decls) : f.decls[i].form = "arrow" /\ f.decls[i].block}
  IN IF funcs # {} THEN WithHook(f, Min(funcs))
     ELSE IF arrows # {} THEN WithHook(f, Min(arrows))
     ELSE f

\* I18nTransformer.addClassComponentSupport: it only logs
TsAddClassComponentSupport(f) == f

TsAddTranslationHook(f, info) ==
  IF info.type = "class" THEN TsAddClassComponentSupport(f) ELSE TsAddFunctionComponentHook(f)

\* pattern-based: /import.*useTranslation.*from.*react-i18next/ or ...from.*@\//
JsHasTranslationImport(f) ==
  \E i \in 1..Len(f.imports) :
    /\ includes(f.imports[i].names, "useTranslation")
    /\ includes(f.imports[i].module, I18nModule) \/ includes(f.imports[i].module, "@/")

\* JavaScriptTransformer.analyzeComponent
JsAnalyzeComponent(f, cfg) ==
  [hasUseTranslation |-> JsHasTranslationImport(f),
   needsTranslation |-> hasExtractableText(f.jsx, cfg),
   type |-> IF \E i \in 1..Len(f.decls) : f.decls[i].form = "class" THEN "class"
            ELSE IF \E i \in 1..Len(f.decls) :
                      f.decls[i].form = "function" /\ f.decls[i].export = "inline"
              THEN "function"
            ELSE IF \E i \in 1..Len(f.decls) : f.decls[i].form = "arrow" THEN "arrow"
            ELSE "function"]

\* JavaScriptTransformer.shouldAddImport
JsShouldAddImport(f, cfg) == ~JsHasTranslationImport(f) /\ hasExtractableText(f.jsx, cfg)

\* JavaScriptTransformer.addTranslationImport: after the last import line
JsAddTranslationImport(f, cfg) ==
  [f EXCEPT !.imports = Append(@, [names |-> "useTranslation", module |-> HookModule(cfg)])]

\* /const\s*{\s*t\s*}\s*=\s*useTranslation\(\)/ in the content
JsHookInContent(f) ==
  \E i \in 1..Len(f.decls) : f.decls[i].hooks > 0 \/ f.decls[i].paramHooks > 0

\* JavaScriptTransformer.addFunctionComponentHook: the statement goes after
\* the first "{" that follows the first `function Name` (pattern 1), which is
\* the brace of a destructured parameter list when there is one; else into the
\* first `const Name = (...) => {` (pattern 2)
JsAddFunctionComponentHook(f) ==
  LET funcs == {i \in 1..Len(f.decls) : f.decls[i].form = "function"}
      arrows == {i \in 1..Len(f.decls) : f.decls[i].form = "arrow" /\ f.decls[i].block}
  IN IF funcs # {}
       THEN IF f.decls[Min(funcs)].paramsBrace
              THEN [f EXCEPT !.decls[Min(funcs)].paramHooks = @ + 1]
              ELSE WithHook(f, Min(funcs))
     ELSE IF arrows # {} THEN WithHook(f, Min(arrows))
     ELSE f

\* JavaScriptTransformer.addClassComponentSupport: the withTranslation import,
\* and `export default Name;` rewritten to `export default withTranslation()(Name);`
JsAddClassComponentSupport(f) ==
  LET hasHoc == \E i \in 1..Len(f.imports) :
                  /\ includes(f.imports[i].names, "withTranslation")
                  /\ includes(f.imports[i].module, I18nModule)
      hooks == {i \in 1..Len(f.imports) :
                  /\ includes(f.imports[i].names, "useTranslation")
                  /\ f.imports[i].module = I18nModule}
      hoc == [names |-> "withTranslation", module |-> I18nModule]
      withImport == IF hasHoc THEN f.imports
                    ELSE IF hooks # {} THEN InsertAt(f.imports, Min(hooks), hoc)
                    ELSE Append(f.imports, hoc)
  IN [f EXCEPT !.imports = withImport,
               !.wrapped = @ \/ \E i \in 1..Len(f.decls) : f.decls[i].export = "statement"]

JsAddTranslationHook(f, info) ==
  IF info.type = "class" THEN JsAddClassComponentSupport(f) ELSE JsAddFunctionComponentHook(f)

(***************************************************************************)
(* transformFile                                                           *)
(***************************************************************************)
\* transformFile works on w = [file, saved, keys, log, count, importAdded,
\* hookAdded, info]: file is the content in memory, saved is hasChanges, keys
\* and log the registry, count the fragments replaced
StartFile(f, reg, info) ==
  [file |-> f, saved |-> FALSE, keys |-> reg.keys, log |-> reg.log, count |-> 0,
   importAdded |-> FALSE, hookAdded |-> FALSE, info |-> info]

TsImportStep(w, cfg) ==
  IF TsShouldAddImport(w.file, cfg)
    THEN [w EXCEPT !.file = TsAddTranslationImport(@, cfg), !.saved = TRUE,
                   !.importAdded = TRUE]
    ELSE w

JsImportStep(w, cfg) ==
  IF JsShouldAddImport(w.file, cfg)
    THEN [w EXCEPT !.file = JsAddTranslationImport(@, cfg), !.saved = TRUE,
                   !.importAdded = TRUE]
    ELSE w

\* ex is what extractTexts returned
AfterExtract(w, ex) ==
  [w EXCEPT !.keys = ex.keys, !.log = ex.log, !.saved = @ \/ ex.count > 0]

TsExtractStep(w, cfg) == AfterExtract(w, extractTexts(w.file.jsx, w, cfg))

\* tr is what transformJSXElements returned
AfterRewrite(w, tr) ==
  [w EXCEPT !.keys = tr.keys, !.log = tr.log, !.count = tr.count,
            !.file.jsx = IF tr.count > 0 THEN tr.out ELSE @,
            !.saved = @ \/ tr.count > 0]

RewriteStep(strat, w, cfg) == AfterRewrite(w, transformJSXElements(strat, w.file.jsx, w, cfg))

TsHookStep(w, cfg) ==
  IF shouldAddHook(w.info, FALSE, cfg)
    THEN [w EXCEPT !.file = TsAddTranslationHook(@, w.info), !.saved = TRUE,
                   !.hookAdded = TRUE]
    ELSE w

JsHookStep(w, cfg) ==
  IF shouldAddHook(w.info, JsHookInContent(w.file), cfg)
    THEN [w EXCEPT !.file = JsAddTranslationHook(@, w.info), !.saved = TRUE,
                   !.hookAdded = TRUE]
    ELSE w

\* if (hasChanges) save: the file on disk afterwards
SaveStep(f, w) == [w EXCEPT !.file = IF w.saved THEN @ ELSE f]

\* I18nTransformer.transformFile on file f with registry reg = [keys, log]
TsTransformFile(f, reg, cfg) ==
  SaveStep(f,
    TsHookStep(
      RewriteStep("structural",
        TsExtractStep(TsImportStep(StartFile(f, reg, TsAnalyzeComponent(f, cfg)), cfg), cfg),
        cfg),
      cfg))

\* JavaScriptTransformer.transformFile
JsTransformFile(f, reg, cfg) ==
  SaveStep(f,
    JsHookStep(
      RewriteStep("pattern",
        JsImportStep(StartFile(f, reg, JsAnalyzeComponent(f, cfg)), cfg),
        cfg),
      cfg))

transformFile(strat, f, reg, cfg) ==
  IF strat = "structural" THEN TsTransformFile(f, reg, cfg) ELSE JsTransformFile(f, reg, cfg)

(***************************************************************************)
(* Catalogs                                                                *)
(*                                                                         *)
(* A catalog file is [exists, parses, obj]: obj is the object fs.readJson   *)
(* yields when the file exists and parses.                                 *)
(***************************************************************************)
NoFile == [exists |-> FALSE, parses |-> TRUE, obj |-> <<>>]

JsonFile(obj) == [exists |-> TRUE, parses |-> TRUE, obj |-> obj]

\* loadExistingTranslations: the entries of the source catalog whose value
\* the validator accepts, each set as (value -> key), in the order of the file
RECURSIVE SeedFrom(_, _, _, _)
SeedFrom(obj, i, keys, cfg) ==
  IF i > Len(obj) THEN keys
  ELSE SeedFrom(obj, i + 1,
                IF isValidTranslationText(obj[i].value, cfg.validation)
                  THEN MapSet(keys, obj[i].value, obj[i].key)
                  ELSE keys,
                cfg)

\* a run that does not seed the registry
loadNothing(cat, cfg) == <<>>

loadExistingTranslations(cat, cfg) ==
  IF cat.exists /\ cat.parses THEN SeedFrom(cat.obj, 1, <<>>, cfg) ELSE <<>>

\* translationKeys.forEach((key, text) => sourceTranslations[key] = text)
RECURSIVE SourceTranslations(_, _, _)
SourceTranslations(keys, i, obj) ==
  IF i > Len(keys) THEN obj
  ELSE SourceTranslations(keys, i + 1, ObjSet(obj, keys[i].key, keys[i].text))

\* the source catalog generateTranslationFiles writes
SourceCatalog(keys, cfg) ==
  LET sourceTranslations == SourceTranslations(keys, 1, <<>>)
  IN IF cfg.sortKeys THEN sortObjectKeys(sourceTranslations) ELSE sourceTranslations

\* a writer that resets every source key of a target catalog
AddNewKeyAlways(target, key) == ObjSet(target, key, "")

\* if (!targetTranslations[key]) targetTranslations[key] = ''
AddNewKey(target, key) == IF ~Truthy(target, key) THEN ObjSet(target, key, "") ELSE target

RECURSIVE AddNewKeys(_, _, _)
AddNewKeys(target, source, i) ==
  IF i > Len(source) THEN target
  ELSE AddNewKeys(AddNewKey(target, source[i].key), source, i + 1)

\* the target catalog generateTranslationFiles writes over the file cat
TargetCatalog(cat, source, cfg) ==
  LET targetTranslations == IF cat.exists /\ cat.parses THEN cat.obj ELSE <<>>
      merged == AddNewKeys(targetTranslations, source, 1)
  IN IF cfg.sortKeys THEN sortObjectKeys(merged) ELSE merged

\* the target files after the loop over config.targetLanguages
RECURSIVE WriteTargets(_, _, _, _)
WriteTargets(targets, source, i, cfg) ==
  IF i > Len(cfg.targetLanguages) THEN targets
  ELSE LET lang == cfg.targetLanguages[i] IN
         WriteTargets([targets EXCEPT ![lang] = JsonFile(TargetCatalog(@, source, cfg))],
                      source, i + 1, cfg)

\* the warnings of the loop: one per target file that exists and does not parse
RECURSIVE TargetWarnings(_, _, _)
TargetWarnings(targets, i, cfg) ==
  IF i > Len(cfg.targetLanguages) THEN <<>>
  ELSE LET lang == cfg.targetLanguages[i] IN
         (IF targets[lang].exists /\ ~targets[lang].parses
            THEN <<"Could not load existing " \o lang \o " translations">>
            ELSE <<>>)
           \o TargetWarnings(targets, i + 1, cfg)

(***************************************************************************)
(* findFiles                                                               *)
(*                                                                         *)
(* A file is known by its number i: its path is Paths[i].  An include      *)
(* pattern `**/*.{a,b}` is the set {a, b} of the extensions it matches.    *)
(***************************************************************************)
\* the paths of the files of a project
Paths == <<"src/App.jsx", "src/components/Profile.jsx">>

\* ConfigManager.getDefaultConfig: include: ['**/*.{tsx,jsx}']
Include == <<{"tsx", "jsx"}>>

Extension(path) ==
  SubSeq(path, Max({i \in 1..Len(path) : Ch(path, i) = "."}) + 1, Len(path))

\* the sequences that list every element of S once
Orders(S) ==
  {q \in [1..Cardinality(S) -> S] : \A i, j \in 1..Cardinality(S) : i # j => q[i] # q[j]}

\* glob.sync(pattern): the files the pattern matches, in an order of its own
glob(pattern, n) == Orders({i \in 1..n : Extension(Paths[i]) \in pattern})

\* what the calls of glob.sync of one findFiles may return for the patterns
GlobResults(patterns, n) ==
  {ms \in [1..Len(patterns) -> UNION {glob(patterns[i], n) : i \in 1..Len(patterns)}] :
     \A i \in 1..Len(patterns) : ms[i] \in glob(patterns[i], n)}

\* files = files.concat(matches), for every pattern
RECURSIVE ConcatMatches(_, _)
ConcatMatches(ms, i) == IF i > Len(ms) THEN <<>> ELSE ms[i] \o ConcatMatches(ms, i + 1)

\* [...new Set(list)]: the first occurrence of each element, in order
Unique(list) ==
  LET firsts == {i \in 1..Len(list) : \A j \in 1..(i - 1) : list[j] # list[i]}
      nth(k) == CHOOSE i \in firsts : Cardinality({j \in firsts : j < i}) = k - 1
  IN [k \in 1..Cardinality(firsts) |-> list[nth(k)]]

\* a findFiles that returns the set in the order of its insertion
Unsorted(list) == list

\* Array.prototype.sort() on the paths of the files of list
SortPaths(list) ==
  LET rank(i) == Cardinality({j \in 1..Len(list) : StrLess(Paths[list[j]], Paths[list[i]])})
  IN [k \in 1..Len(list) |-> list[CHOOSE i \in 1..Len(list) : rank(i) = k - 1]]

\* JavaScriptTransformer.findFiles: the patterns it adds to include
jsPatterns(include) ==
  [i \in 1..Len(include) |-> IF include[i] = {"tsx", "jsx"} THEN {"js", "jsx"} ELSE include[i]]

\* the patterns findFiles hands to glob.sync
FilePatterns(strat, include) ==
  IF strat = "structural" THEN include ELSE include \o jsPatterns(include)

\* files.filter((file) => /\.(js|jsx)$/.test(file)) of JavaScriptTransformer.findFiles
JsFilter(list) == SelectSeq(list, LAMBDA i : Extension(Paths[i]) \in {"js", "jsx"})

\* findFiles, ms being what glob.sync returned for each pattern
findFiles(strat, ms) ==
  SortPaths(Unique(IF strat = "structural" THEN ConcatMatches(ms, 1)
                   ELSE JsFilter(ConcatMatches(ms, 1))))

(***************************************************************************)
(* UniversalTransformer                                                    *)
(*                                                                         *)
(* A UniversalTransformer is [advanced, tsConfig, packageJson, paths,       *)
(* called, transformer]: advanced is config.advanced, tsConfig says that a *)
(* tsconfig.json exists, packageJson is the package.json of the project    *)
(* root, paths are the files under srcDir, called is the method that was   *)
(* called and transformer the transformer it ran.                          *)
(***************************************************************************)
\* a package.json is [exists, parses, deps]: deps are the names of its
\* dependencies, devDependencies and peerDependencies
NoPackageJson == [exists |-> FALSE, parses |-> TRUE, deps |-> {}]

PackageJson(deps) == [exists |-> TRUE, parses |-> TRUE, deps |-> deps]

\* config.advanced without a choice of transformer
NoAdvanced == [forceJavaScript |-> FALSE, forceTypeScript |-> FALSE, transformerType |-> "auto"]

NoSelector ==
  [advanced |-> NoAdvanced, tsConfig |-> FALSE, packageJson |-> NoPackageJson,
   paths |-> <<>>, called |-> "", transformer |-> ""]

\* detectProjectType: hasTypeScriptDeps
hasTypeScriptDeps(packageJson) ==
  /\ packageJson.exists
  /\ packageJson.parses
  /\ \/ "typescript" \in packageJson.deps
     \/ "@types/react" \in packageJson.deps
     \/ "@typescript-eslint/parser" \in packageJson.deps
     \/ \E dep \in packageJson.deps : startsWith(dep, "@types/")

\* detectProjectType: the number of the files matched by the include
\* patterns that end in .ts or .tsx
tsFiles(paths, include) ==
  Cardinality({i \in 1..Len(paths) :
                 /\ \E k \in 1..Len(include) : Extension(paths[i]) \in include[k]
                 /\ Extension(paths[i]) \in {"ts", "tsx"}})

\* UniversalTransformer.detectProjectType: the type it returns
detectProjectType(u) ==
  IF u.advanced.forceJavaScript THEN "javascript"
  ELSE IF u.tsConfig \/ hasTypeScriptDeps(u.packageJson) \/ tsFiles(u.paths, Include) > 0
    THEN "typescript"
  ELSE "javascript"

(***************************************************************************)
(* Projects, catalogs and configurations the runs start from               *)
(***************************************************************************)
\* the number of runs of the tool over one project
MaxRuns == 2

SourceLanguage == "en"

TargetLanguages == <<"es", "fr">>

Languages == {SourceLanguage} \cup {TargetLanguages[i] : i \in 1..Len(TargetLanguages)}

\* ConfigManager.getDefaultConfig, with two of its four target languages
DefaultConfig ==
  [sourceLanguage |-> SourceLanguage,
   targetLanguages |-> TargetLanguages,
   extractJSXText |-> TRUE,
   extractAttributes |-> TRUE,
   addUseTranslationHook |-> TRUE,
   supportClassComponents |-> TRUE,
   customHookImport |-> I18nModule,
   validation |-> [minLength |-> 2, maxLength |-> 500, skipTechnicalTerms |-> TRUE,
                   skipCodeFragments |-> TRUE, skipNumbers |-> TRUE, skipPaths |-> TRUE,
                   customSkipPatterns |-> <<>>],
   sortKeys |-> TRUE,
   keyStrategy |-> "text",
   generateTypeDefinitions |-> TRUE,
   createBackup |-> TRUE]

KeyStrategies == {"text", "hash", "path", "custom"}

\* the record of a call on a validator: the method, its argument, what it
\* returned (valid, details, codeFragment) and the counters before the call
NoCall ==
  [op |-> "", text |-> "", valid |-> FALSE, details |-> <<>>, codeFragment |-> FALSE,
   skippedCount |-> 0, reasons |-> <<>>]

\* new TextValidator(config): calls counts the calls made on it
NewValidator(validation) ==
  [validation |-> validation, skippedCount |-> 0, reasons |-> <<>>, calls |-> 0,
   last |-> NoCall]

\* the validator of the second specification while the runs are looked at
NoValidator == NewValidator(DefaultConfig.validation)

Strategies == {"structural", "pattern"}

\* the configurations of the runs: every key strategy with and without
\* sorted keys, and the default one with a transformation switch turned off
Configs ==
  {[DefaultConfig EXCEPT !.keyStrategy = k, !.sortKeys = b] : k \in KeyStrategies, b \in BOOLEAN}
    \cup {[DefaultConfig EXCEPT !.extractJSXText = FALSE],
          [DefaultConfig EXCEPT !.extractAttributes = FALSE]}

Component(form, export) ==
  [form |-> form, export |-> export, block |-> TRUE, paramsBrace |-> FALSE,
   hooks |-> 0, paramHooks |-> 0]

ReactImport == [names |-> "React", module |-> "react"]

ComponentFile(decl, jsx) ==
  [imports |-> <<ReactImport>>, decls |-> <<decl>>, comp |-> 1, wrapped |-> FALSE, jsx |-> jsx]

\* the files of the projects: file i is the file of path Paths[i]
Projects ==
  { \* a function component with destructured props, exported by a statement
    <<ComponentFile([Component("function", "statement") EXCEPT !.paramsBrace = TRUE],
                    "<h1>Welcome</h1><input placeholder=\"Enter email\" />")>>,
    \* two components that share a text, padded and punctuated differently
    <<ComponentFile(Component("function", "inline"), "<button>Save</button>"),
      ComponentFile(Component("arrow", "named"), "<p> Save </p><b>Save!</b>")>>,
    \* a class component, and a class component below a helper function
    <<ComponentFile(Component("class", "statement"), "<h1>Welcome</h1>"),
      [imports |-> <<ReactImport>>,
       decls |-> <<Component("function", "none"), Component("class", "statement")>>,
       comp |-> 2, wrapped |-> FALSE, jsx |-> "<h2>Welcome</h2>"]>>,
    \* a file transformed before, and a file with nothing to translate
    <<[imports |-> <<ReactImport, [names |-> "useTranslation", module |-> I18nModule]>>,
       decls |-> <<[Component("function", "inline") EXCEPT !.hooks = 1]>>,
       comp |-> 1, wrapped |-> FALSE, jsx |-> "<h1>{t('Welcome')}</h1>"],
      ComponentFile(Component("function", "inline"), "<th>true</th>")>>,
    \* a table whose header is the name of an Object.prototype property, with
    \* a cell that starts with numbers
    <<ComponentFile(Component("arrow", "statement"),
                    "<th>constructor</th><td>Aa</td><td>BB</td><td>1 2 3 go</td>")>> }

\* the catalogs before the first run: the source catalog and the catalog of
\* the first target language (the other target languages have no file yet)
Catalogs ==
  { [source |-> NoFile, target |-> NoFile],
    \* a hand-keyed catalog, translated
    [source |-> JsonFile(<<[key |-> "greeting", value |-> "Welcome"]>>),
     target |-> JsonFile(<<[key |-> "greeting", value |-> "Bienvenido"]>>)],
    \* catalogs of an earlier version of the project, partly translated
    [source |-> JsonFile(<<[key |-> "Save", value |-> "Save changes"],
                           [key |-> "Welcome", value |-> "Welcome"],
                           [key |-> "k1", value |-> "true"]>>),
     target |-> JsonFile(<<[key |-> "Save", value |-> "Guardar cambios"],
                           [key |-> "Welcome", value |-> ""],
                           [key |-> "k1", value |-> "verdadero"]>>)],
    \* a target catalog that is not JSON
    [source |-> JsonFile(<<[key |-> "Welcome", value |-> "Welcome"]>>),
     target |-> [exists |-> TRUE, parses |-> FALSE, obj |-> <<>>]] }

\* the texts a developer adds between two runs
NewTexts == {"Welcome!"}

(***************************************************************************)
(* The runs                                                                *)
(***************************************************************************)
VARIABLES
  strategy,         \* "structural" (I18nTransformer) or "pattern" (JavaScriptTransformer)
  config,
  files,            \* the source files on disk, in the order of findFiles
  locales,          \* the catalog file of each language
  typesFile,        \* types.ts
  backup,           \* what createBackup copied
  translationKeys,  \* the registry: text -> key, in insertion order
  resolveLog,       \* every getOrCreateKey call of the run: [text, key]
  stats,
  pc,               \* where transform() is
  found,            \* what findFiles returned: the files of the loop, in its order
  fileIndex,        \* the next file of the loop: an index of found
  run,
  result,           \* what transform() returned
  history,          \* what an observer of the runs remembers: start, the disk when
                    \* the run started; saved, the files the run wrote; replaced,
                    \* the fragments replaced per file; seeded, the registry after
                    \* loading; edited, whether a developer edited a file since the
                    \* last run; rerun, whether the run started on the untouched
                    \* output of a run before it that met no error; thrown, the
                    \* files whose transformFile threw; failedAt, the step of
                    \* transform() that threw, "" if none, and stats, the
                    \* statistics when it threw; steps, the steps of transform()
                    \* that completed, in order; order, the files transformFile
                    \* was called on, in order; descriptors, the component type
                    \* analyzeComponent gave for each of them ("" if it was not
                    \* reached); hooked, the files hooksAdded was incremented for
  faults,           \* the file-system operations that fail in this environment
  validator,        \* a TextValidator of its own (see the second specification)
  selector          \* a UniversalTransformer of its own (see the third specification)

runVars == <<strategy, config, files, locales, typesFile, backup, translationKeys,
             resolveLog, stats, pc, found, fileIndex, run, result, history, faults>>

vars == <<runVars, validator, selector>>

NoStats ==
  [filesProcessed |-> 0, textsTransformed |-> 0, importsAdded |-> 0, hooksAdded |-> 0,
   warnings |-> <<>>, errors |-> <<>>]

NoResult == [returned |-> FALSE, success |-> FALSE, modifiedFiles |-> <<>>]

\* what the observer remembers when a run starts
NoHistory(disk, rerun) ==
  [start |-> disk, saved |-> {}, replaced |-> <<>>, seeded |-> <<>>, edited |-> FALSE,
   rerun |-> rerun, thrown |-> {}, failedAt |-> "", stats |-> <<>>,
   steps |-> <<>>, order |-> <<>>, descriptors |-> <<>>, hooked |-> {}]

\* the environment: unreadable are the files that cannot be read, unsaveable
\* those that cannot be written, backup says that the backup copy fails,
\* outputDir that the catalog directory cannot be created
NoFaults == [unreadable |-> {}, unsaveable |-> {}, backup |-> FALSE, outputDir |-> FALSE]

Faults ==
  {NoFaults,
   [NoFaults EXCEPT !.unreadable = {1}],
   [NoFaults EXCEPT !.unsaveable = {1}],
   [NoFaults EXCEPT !.backup = TRUE],
   [NoFaults EXCEPT !.outputDir = TRUE]}

\* a catch block that also counts the file as processed
CatchFileErrorCounted(st, file) ==
  [st EXCEPT !.errors = Append(@, [message |-> "Error transforming", file |-> file]),
             !.filesProcessed = @ + 1]

\* the catch block of transformFile
CatchFileError(st, file) ==
  [st EXCEPT !.errors = Append(@, [message |-> "Error transforming", file |-> file])]

\* a catch block that records nothing
TransformationFailedSilently(st) == st

\* the catch block of transform
TransformationFailed(st) ==
  [st EXCEPT !.errors = Append(@, [message |-> "Transformation failed", file |-> 0])]

\* the disk as an observer sees it
Disk == [files |-> files, locales |-> locales]

Init ==
  /\ strategy \in Strategies
  /\ config \in Configs
  /\ files \in Projects
  /\ \E c \in Catalogs :
       locales = [l \in Languages |-> IF l = SourceLanguage THEN c.source
                                      ELSE IF l = TargetLanguages[1] THEN c.target
                                      ELSE NoFile]
  /\ typesFile = [exists |-> FALSE, keys |-> <<>>]
  /\ backup = [exists |-> FALSE, files |-> <<>>]
  /\ translationKeys = <<>>
  /\ resolveLog = <<>>
  /\ stats = NoStats
  /\ pc = "load"
  /\ found = <<>>
  /\ fileIndex = 1
  /\ run = 1
  /\ result = NoResult
  /\ history = NoHistory(Disk, FALSE)
  /\ faults \in Faults
  /\ faults # NoFaults => config = DefaultConfig
  /\ validator = NoValidator
  /\ selector = NoSelector

\* transform(): loadExistingTranslations
LoadExistingTranslations ==
  /\ pc = "load"
  /\ translationKeys' = loadExistingTranslations(locales[config.sourceLanguage], config)
  /\ stats' = IF locales[config.sourceLanguage].exists /\ ~locales[config.sourceLanguage].parses
                THEN [stats EXCEPT !.warnings = Append(@, "Could not load existing translations")]
                ELSE stats
  /\ history' = [history EXCEPT !.seeded = translationKeys', !.steps = Append(@, "load")]
  /\ pc' = "backup"
  /\ UNCHANGED <<faults, validator, selector, found, strategy, config, files, locales, typesFile, backup, resolveLog,
                 fileIndex, run, result>>

\* transform(): the step threw; the catch block returns success: false
Thrown(step) ==
  /\ stats' = TransformationFailed(stats)
  /\ result' = [returned |-> TRUE, success |-> FALSE, modifiedFiles |-> <<>>]
  /\ history' = [history EXCEPT !.failedAt = step, !.stats = stats]
  /\ pc' = "done"

\* transform(): createBackup when enabled, then findFiles
CreateBackup ==
  /\ pc = "backup"
  /\ IF config.createBackup /\ faults.backup
       THEN /\ Thrown("backup")
            /\ UNCHANGED <<backup, found>>
       ELSE /\ backup' = IF config.createBackup THEN [exists |-> TRUE, files |-> files]
                         ELSE backup
            /\ \E ms \in GlobResults(FilePatterns(strategy, Include), Len(files)) :
                 found' = findFiles(strategy, ms)
            /\ history' = [history EXCEPT !.steps =
                             @ \o (IF config.createBackup THEN <<"backup">> ELSE <<>>)
                               \o <<"findFiles">>]
            /\ pc' = "files"
            /\ UNCHANGED <<stats, result>>
  /\ fileIndex' = 1
  /\ UNCHANGED <<faults, validator, selector, strategy, config, files, locales, typesFile,
                 translationKeys, resolveLog, run>>

\* what transformFile leaves behind: r is the outcome for the current file
\* the counters of transformFile; saveThrew says that the save threw, which
\* leaves filesProcessed as it was
FileStats(st, r, saveThrew) ==
  IF saveThrew
    THEN CatchFileError([st EXCEPT !.textsTransformed = @ + r.count,
                                   !.importsAdded = @ + (IF r.importAdded THEN 1 ELSE 0),
                                   !.hooksAdded = @ + (IF r.hookAdded THEN 1 ELSE 0)],
                        found[fileIndex])
    ELSE [st EXCEPT !.filesProcessed = @ + 1,
                    !.textsTransformed = @ + r.count,
                    !.importsAdded = @ + (IF r.importAdded THEN 1 ELSE 0),
                    !.hooksAdded = @ + (IF r.hookAdded THEN 1 ELSE 0)]

FileDone(r) ==
  /\ files' = IF r.saved /\ found[fileIndex] \notin faults.unsaveable
                THEN [files EXCEPT ![found[fileIndex]] = r.file]
                ELSE files
  /\ translationKeys' = r.keys
  /\ resolveLog' = r.log
  /\ stats' = FileStats(stats, r, r.saved /\ found[fileIndex] \in faults.unsaveable)
  /\ history' = IF r.saved /\ found[fileIndex] \in faults.unsaveable
                  THEN [history EXCEPT !.replaced = Append(@, 0),
                                       !.thrown = @ \cup {found[fileIndex]},
                                       !.steps = Append(@, "transformFile"),
                                       !.order = Append(@, found[fileIndex]),
                                       !.descriptors = Append(@, r.info.type),
                                       !.hooked = @ \cup (IF r.hookAdded THEN {found[fileIndex]}
                                                          ELSE {})]
                  ELSE [history EXCEPT !.saved = @ \cup (IF r.saved THEN {found[fileIndex]} ELSE {}),
                                       !.replaced = Append(@, r.count),
                                       !.steps = Append(@, "transformFile"),
                                       !.order = Append(@, found[fileIndex]),
                                       !.descriptors = Append(@, r.info.type),
                                       !.hooked = @ \cup (IF r.hookAdded THEN {found[fileIndex]}
                                                          ELSE {})]

\* the file cannot be read: transformFile throws at its first statement
FileUnreadable ==
  /\ stats' = CatchFileError(stats, found[fileIndex])
  /\ history' = [history EXCEPT !.replaced = Append(@, 0),
                                !.thrown = @ \cup {found[fileIndex]},
                                !.steps = Append(@, "transformFile"),
                                !.order = Append(@, found[fileIndex]),
                                !.descriptors = Append(@, "")]
  /\ UNCHANGED <<files, translationKeys, resolveLog>>

\* transform(): one turn of the loop over the files
TransformFile ==
  /\ pc = "files"
  /\ fileIndex <= Len(found)
  /\ IF found[fileIndex] \in faults.unreadable
       THEN FileUnreadable
       ELSE FileDone(transformFile(strategy, files[found[fileIndex]],
                                   [keys |-> translationKeys, log |-> resolveLog], config))
  /\ fileIndex' = fileIndex + 1
  /\ UNCHANGED <<faults, validator, selector, found, strategy, config, locales, typesFile, backup, pc, run, result>>

\* what generateTranslationFiles leaves behind: source is the source catalog
CatalogsWritten(source) ==
  /\ locales' = WriteTargets([locales EXCEPT ![config.sourceLanguage] = JsonFile(source)],
                             source, 1, config)
  /\ stats' = [stats EXCEPT !.warnings = @ \o TargetWarnings(locales, 1, config)]

\* transform(): generateTranslationFiles
GenerateTranslationFiles ==
  /\ pc = "files"
  /\ fileIndex > Len(found)
  /\ IF faults.outputDir
       THEN /\ Thrown("catalogs")
            /\ UNCHANGED locales
       ELSE /\ CatalogsWritten(SourceCatalog(translationKeys, config))
            /\ pc' = IF strategy = "structural" /\ config.generateTypeDefinitions
                       THEN "types" ELSE "return"
            /\ history' = [history EXCEPT !.steps = Append(@, "generateTranslationFiles")]
            /\ UNCHANGED result
  /\ UNCHANGED <<faults, validator, selector, found, strategy, config, files, typesFile, backup,
                 translationKeys, resolveLog, fileIndex, run>>

\* I18nTransformer.transform(): generateTypeDefinitions
GenerateTypeDefinitions ==
  /\ pc = "types"
  /\ typesFile' = [exists |-> TRUE,
                   keys |-> [i \in 1..Len(translationKeys) |-> translationKeys[i].key]]
  /\ history' = [history EXCEPT !.steps = Append(@, "generateTypeDefinitions")]
  /\ pc' = "return"
  /\ UNCHANGED <<faults, validator, selector, found, strategy, config, files, locales, backup,
                 translationKeys, resolveLog, stats, fileIndex, run, result>>

\* transform(): return { success: true, ..., modifiedFiles: files, ... }
Return ==
  /\ pc = "return"
  /\ result' = [returned |-> TRUE, success |-> TRUE,
                modifiedFiles |-> found]
  /\ pc' = "done"
  /\ UNCHANGED <<faults, validator, selector, found, strategy, config, files, locales, typesFile, backup, translationKeys,
                 resolveLog, stats, fileIndex, run, history>>

\* a developer adds an element with a new text to the first file
DeveloperEdit ==
  /\ pc = "done"
  /\ run < MaxRuns
  /\ ~history.edited
  /\ \E text \in NewTexts :
       files' = [files EXCEPT ![1].jsx = @ \o "<p>" \o text \o "</p>"]
  /\ history' = [history EXCEPT !.edited = TRUE]
  /\ UNCHANGED <<faults, validator, selector, found, strategy, config, locales, typesFile, backup, translationKeys, resolveLog,
                 stats, pc, fileIndex, run, result>>

\* the tool is run again, as a new process, with the same configuration
StartRun ==
  /\ pc = "done"
  /\ run < MaxRuns
  /\ run' = run + 1
  /\ translationKeys' = <<>>
  /\ resolveLog' = <<>>
  /\ stats' = NoStats
  /\ result' = NoResult
  /\ found' = <<>>
  /\ fileIndex' = 1
  /\ pc' = "load"
  /\ history' = NoHistory(Disk, ~history.edited /\ stats.errors = <<>>)
  /\ UNCHANGED <<faults, validator, selector, strategy, config, files, locales, typesFile, backup>>

Next ==
  \/ LoadExistingTranslations
  \/ CreateBackup
  \/ TransformFile
  \/ GenerateTranslationFiles
  \/ GenerateTypeDefinitions
  \/ Return
  \/ DeveloperEdit
  \/ StartRun

Spec == Init /\ [][Next]_vars

(***************************************************************************)
(* The second specification: calls on a TextValidator                      *)
(***************************************************************************)
\* the number of calls made on one validator
MaxCalls == 2

\* the configurations of a validator: the default one; the sample
\* configuration of createSampleConfig with a pattern that does not compile
\* put among its custom patterns and paths not skipped; a short maxLength
Validations ==
  {DefaultConfig.validation,
   [DefaultConfig.validation EXCEPT
      !.skipPaths = FALSE,
      !.customSkipPatterns = <<"^\\d+$", "[", "^[A-Z_]+$", "^\\w+\\.(js|ts|tsx|jsx)$">>],
   [DefaultConfig.validation EXCEPT !.maxLength = 12, !.skipNumbers = FALSE]}

\* the texts the validator is called with
ValidatorTexts ==
  {"", "a", "  ", "true", "123", "45.67", "./src/x", "<div>", "100px", "bg-blue-500",
   "#ffffff", "#123456", "Save Changes", "Hello World", "' + variable + '",
   "React.Component", "className=\"test\"", "FOO_BAR", "app.tsx", "?!", "if ready",
   "Save? (yes)", "TODO later", "Welcome to the application", "Éé", "É!", "Été"}

\* the run variables while a validator is looked at
NoRun ==
  /\ strategy = "structural"
  /\ config = DefaultConfig
  /\ files = <<>>
  /\ locales = [l \in Languages |-> NoFile]
  /\ typesFile = [exists |-> FALSE, keys |-> <<>>]
  /\ backup = [exists |-> FALSE, files |-> <<>>]
  /\ translationKeys = <<>>
  /\ resolveLog = <<>>
  /\ stats = NoStats
  /\ pc = "validator"
  /\ found = <<>>
  /\ fileIndex = 1
  /\ run = 1
  /\ result = NoResult
  /\ history = NoHistory(Disk, FALSE)
  /\ faults = NoFaults

ValidatorInit ==
  /\ NoRun
  /\ validator \in {NewValidator(v) : v \in Validations}
  /\ selector = NoSelector

\* the validator val after a call of op on text that returned valid, details
\* and codeFragment and left the counters of after
Called(val, op, text, valid, details, codeFragment, after) ==
  [after EXCEPT !.calls = val.calls + 1,
                !.last = [op |-> op, text |-> text, valid |-> valid, details |-> details,
                          codeFragment |-> codeFragment,
                          skippedCount |-> val.skippedCount, reasons |-> val.reasons]]

\* validator.isValidTranslationText(text)
IsValidTranslationText ==
  /\ validator.calls < MaxCalls
  /\ \E text \in ValidatorTexts :
       validator' = Called(validator, "isValidTranslationText", text,
                           isValidTranslationText(text, validator.validation), <<>>, FALSE,
                           Skipped(validator, SkipReason(text, validator.validation)))
  /\ UNCHANGED <<runVars, selector>>

\* validator.validateWithDetails(text), which calls isValidTranslationText
ValidateWithDetails ==
  /\ validator.calls < MaxCalls
  /\ \E text \in ValidatorTexts :
       validator' = Called(validator, "validateWithDetails", text,
                           isValidTranslationText(text, validator.validation),
                           validateWithDetails(text, validator.validation), FALSE,
                           Skipped(validator, SkipReason(text, validator.validation)))
  /\ UNCHANGED <<runVars, selector>>

\* validator.isCodeFragment(text)
IsCodeFragment ==
  /\ validator.calls < MaxCalls
  /\ \E text \in ValidatorTexts :
       validator' = Called(validator, "isCodeFragment", text, FALSE, <<>>,
                           isCodeFragment(text), validator)
  /\ UNCHANGED <<runVars, selector>>

\* validator.resetStats()
ResetStats ==
  /\ validator.calls < MaxCalls
  /\ validator.skippedCount > 0
  /\ validator' = Called(validator, "resetStats", "", FALSE, <<>>, FALSE,
                         resetStats(validator))
  /\ UNCHANGED <<runVars, selector>>

ValidatorNext ==
  \/ IsValidTranslationText
  \/ ValidateWithDetails
  \/ IsCodeFragment
  \/ ResetStats

ValidatorSpec == ValidatorInit /\ [][ValidatorNext]_vars

(***************************************************************************)
(* The third specification: a UniversalTransformer and its choice of a     *)
(* transformer                                                             *)
(***************************************************************************)
\* config.advanced as a configuration file may set it
Advanced ==
  [forceJavaScript : BOOLEAN, forceTypeScript : BOOLEAN,
   transformerType : {"auto", "typescript", "javascript"}]

PackageJsons ==
  {NoPackageJson,
   [exists |-> TRUE, parses |-> FALSE, deps |-> {}],
   PackageJson({"react"}),
   PackageJson({"react", "typescript"}),
   PackageJson({"react", "@types/node"})}

\* the files under srcDir
SelectorPaths ==
  {<<"src/App.jsx">>, <<"src/App.jsx", "src/index.tsx">>, <<"src/App.jsx", "src/api.ts">>}

SelectorInit ==
  /\ NoRun
  /\ validator = NoValidator
  /\ selector \in {[NoSelector EXCEPT !.advanced = a, !.tsConfig = c, !.packageJson = p,
                                      !.paths = f] :
                     a \in Advanced, c \in BOOLEAN, p \in PackageJsons, f \in SelectorPaths}

\* universal.transform(): the transformer of the detected project type runs
UniversalTransform ==
  /\ selector.called = ""
  /\ selector' = [selector EXCEPT !.called = "transform",
                                  !.transformer = detectProjectType(selector)]
  /\ UNCHANGED <<runVars, validator>>

\* universal.transformWithType(transformerType)
TransformWithType ==
  /\ selector.called = ""
  /\ \E transformerType \in {"typescript", "javascript"} :
       selector' = [selector EXCEPT !.called = "transformWithType",
                                    !.transformer = transformerType]
  /\ UNCHANGED <<runVars, validator>>

SelectorNext ==
  \/ UniversalTransform
  \/ TransformWithType

SelectorSpec == SelectorInit /\ [][SelectorNext]_vars


(***************************************************************************)
(* Properties of the runs                                                  *)
(***************************************************************************)
Targets == {config.targetLanguages[i] : i \in 1..Len(config.targetLanguages)}

\* the catalog of a language when the current run started, and now
StartCatalog(lang) == history.start.locales[lang].obj

Catalog(lang) == locales[lang].obj

\* C1: the Catalog Writer never changes the value of a key that is already in
\* a target catalog, be it "" or a translation: every key a target catalog
\* held when the run started is still there with the same value.
C1_TargetValuesKept ==
  \A lang \in Targets : \A key \in ObjKeys(StartCatalog(lang)) :
    /\ ObjHas(Catalog(lang), key)
    /\ ObjGet(Catalog(lang), key) = ObjGet(StartCatalog(lang), key)

\* a run has written the catalogs, and a target catalog held a translation
\* for a key that the run wrote to the source catalog
C1_Witness ==
  /\ pc = "done"
  /\ \E lang \in Targets : \E key \in ObjKeys(StartCatalog(lang)) :
       /\ ObjGet(StartCatalog(lang), key) # ""
       /\ ObjHas(Catalog(config.sourceLanguage), key)

\* C2: after a run, every key of every target catalog is a key of the source
\* catalog the run wrote.
C2_TargetKeysInSource ==
  pc = "done" =>
    \A lang \in Targets : ObjKeys(Catalog(lang)) \subseteq ObjKeys(Catalog(config.sourceLanguage))

\* C3: a run on the untouched output of the run before it, with the same
\* configuration, leaves every target catalog as it was and, when sortKeys is
\* set, writes the source catalog it found.
C3_RerunKeepsCatalogs ==
  (pc = "done" /\ history.rerun) =>
    /\ \A lang \in Targets : locales[lang] = history.start.locales[lang]
    /\ config.sortKeys =>
         locales[config.sourceLanguage] = history.start.locales[config.sourceLanguage]

\* such a run has ended, with sortKeys set and a source catalog that is not empty
C3_Witness ==
  /\ pc = "done"
  /\ history.rerun
  /\ config.sortKeys
  /\ Catalog(config.sourceLanguage) # <<>>
  /\ \E lang \in Targets : \E key \in ObjKeys(Catalog(lang)) : ObjGet(Catalog(lang), key) # ""

\* C4: after the writer has run, every key of the source catalog is in every
\* target catalog, and a key the target catalog did not hold before has the
\* value "".
C4_SourceKeysInTargets ==
  pc = "done" =>
    \A lang \in Targets : \A key \in ObjKeys(Catalog(config.sourceLanguage)) :
      /\ ObjHas(Catalog(lang), key)
      /\ ~ObjHas(StartCatalog(lang), key) => ObjGet(Catalog(lang), key) = ""

\* C5: within a run the registry gives one text one key, the first one bound
\* to it, and the source catalog the run writes has exactly one entry for
\* every text of the registry.
C5_OneEntryPerText ==
  /\ \A i, j \in 1..Len(resolveLog) :
       resolveLog[i].text = resolveLog[j].text => resolveLog[i].key = resolveLog[j].key
  /\ \A i, j \in 1..Len(translationKeys) :
       translationKeys[i].text = translationKeys[j].text => i = j
  /\ pc = "done" =>
       \A i \in 1..Len(translationKeys) :
         Cardinality({n \in 1..Len(Catalog(config.sourceLanguage)) :
                        Catalog(config.sourceLanguage)[n].value = translationKeys[i].text}) = 1

\* C6: no key of the registry is bound to two different texts.
C6_OneTextPerKey ==
  \A i, j \in 1..Len(translationKeys) :
    translationKeys[i].key = translationKeys[j].key
      => translationKeys[i].text = translationKeys[j].text

\* C7: if the source catalog a run wrote maps k to x and the validator accepts
\* x in the next run, then every resolve of x in that run returns k and the
\* source catalog that run writes maps k to x.
C7_KeysStable ==
  (pc = "done" /\ run > 1) =>
    \A n \in 1..Len(StartCatalog(config.sourceLanguage)) :
      isValidTranslationText(StartCatalog(config.sourceLanguage)[n].value, config.validation)
        => /\ \A m \in 1..Len(resolveLog) :
                resolveLog[m].text = trim(StartCatalog(config.sourceLanguage)[n].value)
                  => resolveLog[m].key = StartCatalog(config.sourceLanguage)[n].key
           /\ ObjHas(Catalog(config.sourceLanguage), StartCatalog(config.sourceLanguage)[n].key)
           /\ ObjGet(Catalog(config.sourceLanguage), StartCatalog(config.sourceLanguage)[n].key)
                = StartCatalog(config.sourceLanguage)[n].value

\* C8: a run on the untouched output of the run before it replaces no
\* fragment, adds no import and no binding, and leaves every file as it was
\* (until a developer edits one after the run), under both rewriting strategies.
C8_RerunRewritesNothing ==
  (history.rerun /\ ~history.edited) =>
    /\ files = history.start.files
    /\ history.saved = {}
    /\ stats.textsTransformed = 0
    /\ stats.importsAdded = 0
    /\ stats.hooksAdded = 0

\* such a run has gone through a file that holds translation calls
C8_Witness ==
  /\ history.rerun
  /\ pc = "done"
  /\ \E i \in 1..Len(files) : includes(files[i].jsx, "{t('")

\* the file imports the translation facility
HasTranslationImport(f) ==
  \E i \in 1..Len(f.imports) :
    /\ includes(f.imports[i].names, "useTranslation") \/ includes(f.imports[i].names, "withTranslation")
    /\ f.imports[i].module = HookModule(config)

\* the component that holds the markup has a callable t in scope
HasBinding(f) ==
  IF f.decls[f.comp].form = "class" THEN f.wrapped ELSE f.decls[f.comp].hooks > 0

\* C9: a file saved with at least one fragment replaced by a translation call
\* imports the translation facility and has t in scope in its component.
C9_BindingInScope ==
  \A i \in history.saved :
    history.replaced[i] > 0 => HasTranslationImport(files[i]) /\ HasBinding(files[i])

\* C10: modifiedFiles lists exactly the files the run saved.
C10_ModifiedFilesAreSaved ==
  pc = "done" =>
    {result.modifiedFiles[i] : i \in 1..Len(result.modifiedFiles)} = history.saved

\* C11: a file in which no fragment passes the validator gets no import and is
\* not saved, under both strategies.
C11_ImportOnlyWhenNeeded ==
  \A i \in 1..Len(files) :
    ~hasExtractableText(history.start.files[i].jsx, config)
      => /\ files[i].imports = history.start.files[i].imports
         /\ i \notin history.saved

\* the errors of stats.errors that name file i
FileErrors(i) ==
  {n \in 1..Len(stats.errors) :
     stats.errors[n].message = "Error transforming" /\ stats.errors[n].file = i}

\* C12: a file whose transformFile throws gets exactly one error that names
\* it and is not counted in filesProcessed; the later files are still
\* processed, the catalogs are generated and the run succeeds.
C12_FileErrorsIsolated ==
  /\ \A i \in 1..Len(files) :
       Cardinality(FileErrors(i)) = (IF i \in history.thrown THEN 1 ELSE 0)
  /\ stats.filesProcessed = Len(history.replaced) - Cardinality(history.thrown)
  /\ (pc = "done" /\ history.thrown # {}) =>
       /\ Len(history.replaced) = Len(files)
       /\ result.returned /\ result.success
       /\ \A lang \in Languages : locales[lang].exists /\ locales[lang].parses
       /\ Catalog(config.sourceLanguage) = SourceCatalog(translationKeys, config)

\* the first file threw, and the run went on to rewrite and save a later file
C12_Witness ==
  /\ pc = "done"
  /\ 1 \in history.thrown
  /\ \E i \in history.saved : i > 1 /\ history.replaced[i] > 0

\* C13: when the backup or the catalog generation throws, the run stops at
\* that step and returns success: false, with the error appended to the
\* statistics gathered until then; when it is the backup, no source file and
\* no catalog has been written.
C13_FatalErrorsAbort ==
  /\ pc \in {"files", "types", "return"} => ~(config.createBackup /\ faults.backup)
  /\ pc \in {"types", "return"} => ~faults.outputDir
  /\ (pc = "done" /\ history.failedAt # "" /\ ~history.edited) =>
       /\ result.returned /\ ~result.success
       /\ stats.errors = Append(history.stats.errors,
                                 [message |-> "Transformation failed", file |-> 0])
       /\ [stats EXCEPT !.errors = history.stats.errors] = history.stats
       /\ locales = history.start.locales
       /\ history.failedAt = "backup" =>
            /\ files = history.start.files
            /\ history.replaced = <<>>
            /\ ~backup.exists \/ run > 1
       /\ history.failedAt = "catalogs" => Len(history.replaced) = Len(files)

\* the catalog generation threw after fragments had been replaced
C13_Witness ==
  /\ pc = "done"
  /\ history.failedAt = "catalogs"
  /\ stats.textsTransformed > 0

\* C14: a target catalog that exists and does not parse costs a warning, not
\* the run: the file is written anew with every key of the source catalog
\* mapped to "", and the other target catalogs are written as well.
C14_UnparsableTargetRegenerated ==
  (pc = "done" /\ history.failedAt = "") =>
    \A lang \in Targets :
      (history.start.locales[lang].exists /\ ~history.start.locales[lang].parses) =>
        /\ result.success
        /\ \E n \in 1..Len(stats.warnings) :
             stats.warnings[n] = "Could not load existing " \o lang \o " translations"
        /\ locales[lang].exists /\ locales[lang].parses
        /\ ObjKeys(Catalog(lang)) = ObjKeys(Catalog(config.sourceLanguage))
        /\ \A key \in ObjKeys(Catalog(lang)) : ObjGet(Catalog(lang), key) = ""
        /\ \A other \in Targets : locales[other].exists /\ locales[other].parses
\* the first run, with the text key strategy and no catalog on disk, has ended
\* without error on the single function component whose markup is
\* <h1>Welcome</h1><input placeholder="Enter email" />
ProfileRunDone ==
  /\ pc = "done"
  /\ run = 1
  /\ ~history.edited
  /\ stats.errors = <<>>
  /\ config.keyStrategy = "text"
  /\ \A lang \in Languages : ~history.start.locales[lang].exists
  /\ Len(history.start.files) = 1
  /\ history.start.files[1].decls[1].form = "function"
  /\ history.start.files[1].jsx = "<h1>Welcome</h1><input placeholder=\"Enter email\" />"

Classified == validator.last.op \in {"isValidTranslationText", "validateWithDetails"}

\* C15: under the default configuration the classifier rejects "true", "123",
\* "./src/x" and "<div>", rejects every CSS length, every text that starts
\* with a utility-class prefix and every hex colour code, and accepts
\* "Save Changes".
C15_DefaultRejections ==
  (Classified /\ validator.validation = DefaultConfig.validation) =>
    /\ validator.last.text \in {"true", "123", "./src/x", "<div>"} => ~validator.last.valid
    /\ RuleCssUnits(validator.last.text) => ~validator.last.valid
    /\ RuleCssClasses(validator.last.text) => ~validator.last.valid
    /\ RuleHexColors(validator.last.text) => ~validator.last.valid
    /\ validator.last.text = "Save Changes" => validator.last.valid

\* C16: under the default configuration the classifier rejects every text
\* that isCodeFragment flags.
C16_CodeFragmentsRejected ==
  (validator.last.op = "isCodeFragment" /\ validator.validation = DefaultConfig.validation
     /\ validator.last.codeFragment)
    => ~isValidTranslationText(validator.last.text, validator.validation)

\* the checks of the classifier in their order; "rule" stands for the
\* error-severity rules
CheckOrder ==
  <<"empty-or-invalid", "too-short", "too-long", "technical-term", "number", "path",
    "rule", "custom-pattern", "no-letters", "symbols-only">>

\* whether text fails the check, taken on its own
CheckFails(check, text, v) ==
  CASE check = "empty-or-invalid" -> text = ""
    [] check = "too-short" -> Len(trim(text)) < v.minLength
    [] check = "too-long" -> Len(trim(text)) > v.maxLength
    [] check = "technical-term" ->
         v.skipTechnicalTerms /\ toLowerCase(trim(text)) \in technicalTerms
    [] check = "number" -> v.skipNumbers /\ IsNumber(trim(text))
    [] check = "path" -> v.skipPaths /\ isPath(trim(text))
    [] check = "rule" ->
         /\ v.skipCodeFragments
         /\ \E i \in 1..Len(validationRules) :
              validationRules[i].severity = "error"
                /\ RuleTest(validationRules[i].name, trim(text))
    [] check = "custom-pattern" ->
         \E i \in 1..Len(v.customSkipPatterns) :
           /\ PatternCompiles(v.customSkipPatterns[i])
           /\ PatternTest(v.customSkipPatterns[i], trim(text))
    [] check = "no-letters" -> \A i \in 1..Len(trim(text)) : Ch(trim(text), i) \notin Letter
    [] check = "symbols-only" ->
         \A i \in 1..Len(trim(text)) : Ch(trim(text), i) \notin WordChar \cup Space

\* the rules of severity warning or info that match the text
SoftRules(text) ==
  {i \in 1..Len(validationRules) :
     validationRules[i].severity \in {"warning", "info"}
       /\ RuleTest(validationRules[i].name, trim(text))}

RECURSIVE SumCounts(_)
SumCounts(reasons) ==
  IF reasons = <<>> THEN 0 ELSE Head(reasons).count + SumCounts(Tail(reasons))

\* the reasons that have a counter in one of two Maps
ReasonsOf(a, b) == {a[i].reason : i \in 1..Len(a)} \cup {b[i].reason : i \in 1..Len(b)}

\* C18: a classification that rejects adds 1 to the skip total and to one
\* per-reason counter, that of the first check in the order that the text
\* fails; one that accepts changes no counter; the total is the sum of the
\* per-reason counters; the verdict does not depend on the counters.
C18_SkipCounters ==
  /\ validator.skippedCount = SumCounts(validator.reasons)
  /\ Classified =>
       /\ validator.last.valid
            = isValidTranslationText(validator.last.text, validator.validation)
       /\ validator.last.valid =>
            /\ validator.skippedCount = validator.last.skippedCount
            /\ validator.reasons = validator.last.reasons
       /\ ~validator.last.valid =>
            /\ validator.skippedCount = validator.last.skippedCount + 1
            /\ \E n \in 1..Len(CheckOrder) :
                 /\ CheckFails(CheckOrder[n], validator.last.text, validator.validation)
                 /\ \A m \in 1..(n - 1) :
                      ~CheckFails(CheckOrder[m], validator.last.text, validator.validation)
                 /\ \E r \in ReasonsOf(validator.reasons, validator.last.reasons) :
                      /\ r = CheckOrder[n] \/ (CheckOrder[n] = "rule" /\ startsWith(r, "rule-"))
                      /\ \A q \in ReasonsOf(validator.reasons, validator.last.reasons) :
                           ReasonCount(validator.reasons, q)
                             = ReasonCount(validator.last.reasons, q) + (IF q = r THEN 1 ELSE 0)

\* a second rejection for the same reason, after a first one
C18_Witness ==
  /\ Classified
  /\ ~validator.last.valid
  /\ validator.last.skippedCount > 0
  /\ \E i \in 1..Len(validator.reasons) : validator.reasons[i].count = 2

\* C19: a custom skip pattern that does not compile is passed over: the
\* verdict is the one the validator gives with that pattern taken out of the
\* list.
C19_InvalidPatternSkipped ==
  Classified =>
    validator.last.valid
      = isValidTranslationText(validator.last.text,
          [validator.validation EXCEPT
             !.customSkipPatterns = SelectSeq(@, PatternCompiles)])

\* a text was rejected by a custom pattern that follows one that does not
\* compile
C19_Witness ==
  /\ Classified
  /\ ~validator.last.valid
  /\ ReasonCount(validator.reasons, "custom-pattern")
       > ReasonCount(validator.last.reasons, "custom-pattern")
  /\ \E i \in 1..Len(validator.validation.customSkipPatterns) :
       /\ ~PatternCompiles(validator.validation.customSkipPatterns[i])
       /\ \E j \in (i + 1)..Len(validator.validation.customSkipPatterns) :
            PatternTest(validator.validation.customSkipPatterns[j], trim(validator.last.text))

(***************************************************************************)
(* Properties of the component descriptor and of the translation binding   *)
(***************************************************************************)
\* the component type the evidence in file f stands for, by priority: an
\* exported class, an exported function declaration, a variable bound to an
\* arrow function, else function
TypeByPriority(f) ==
  IF \E i \in 1..Len(f.decls) : f.decls[i].form = "class" /\ f.decls[i].export # "none"
    THEN "class"
  ELSE IF \E i \in 1..Len(f.decls) : f.decls[i].form = "function" /\ f.decls[i].export # "none"
    THEN "function"
  ELSE IF \E i \in 1..Len(f.decls) : f.decls[i].form = "arrow" THEN "arrow"
  ELSE "function"

\* C21: the descriptor analyzeComponent gives for a file is the type its
\* evidence stands for by priority (exported class, exported function, arrow,
\* else function), under both strategies
C21_DescriptorPriority ==
  \A k \in 1..Len(history.descriptors) :
    history.descriptors[k] # "" =>
      history.descriptors[k] = TypeByPriority(history.start.files[history.order[k]])

\* C22: a file whose component is class style and for which hooksAdded was
\* incremented is saved with its default export wrapped in withTranslation,
\* under both strategies
C22_ClassComponentWrapped ==
  \A k \in 1..Len(history.order) :
    /\ history.descriptors[k] = "class"
    /\ history.order[k] \in history.hooked
    /\ history.order[k] \in history.saved
    => files[history.order[k]].wrapped

\* the translation binding is in file after as the one new statement of the
\* file before: the first statement of the body of its component
HookInserted(before, after) ==
  \A d \in 1..Len(before.decls) :
    /\ after.decls[d].paramHooks = before.decls[d].paramHooks
    /\ after.decls[d].hooks = before.decls[d].hooks + (IF d = before.comp THEN 1 ELSE 0)

\* C23: a file whose component is function style (function or arrow) and for
\* which hooksAdded was incremented has the statement
\* const { t } = useTranslation(); inserted once, as the first statement of the
\* body of the component, not in a parameter list and not in another function
C23_HookFirstInBody ==
  \A k \in 1..Len(history.order) :
    /\ history.descriptors[k] \in {"function", "arrow"}
    /\ history.order[k] \in history.hooked
    /\ history.order[k] \in history.saved
    => HookInserted(history.start.files[history.order[k]], files[history.order[k]])

(***************************************************************************)
(* Properties of the type manifest                                         *)
(***************************************************************************)
\* C24: a successful run with generateTypeDefinitions enabled has written a
\* type manifest that lists every key of the source catalog it wrote,
\* whichever strategy ran
C24_TypeManifestWritten ==
  pc = "done" /\ result.success /\ config.generateTypeDefinitions
    => /\ typesFile.exists
       /\ \A k \in 1..Len(Catalog(config.sourceLanguage)) :
            \E n \in 1..Len(typesFile.keys) :
              typesFile.keys[n] = Catalog(config.sourceLanguage)[k].key

(***************************************************************************)
(* Properties of the choice of a transformer                               *)
(***************************************************************************)
\* the choices config.advanced makes: of the structural transformer, of the
\* pattern-based one
ChoosesTypeScript(advanced) ==
  advanced.forceTypeScript \/ advanced.transformerType = "typescript"

ChoosesJavaScript(advanced) ==
  advanced.forceJavaScript \/ advanced.transformerType = "javascript"

\* the evidence of TypeScript in the project: a tsconfig.json, a TypeScript
\* dependency, a .ts or .tsx file among the files the include patterns select
TypeScriptEvidence(u) ==
  \/ u.tsConfig
  \/ hasTypeScriptDeps(u.packageJson)
  \/ \E i \in 1..Len(u.paths) :
       /\ Extension(u.paths[i]) \in {"ts", "tsx"}
       /\ \E k \in 1..Len(Include) : Extension(u.paths[i]) \in Include[k]

\* C25: UniversalTransformer.transform runs the structural transformer when
\* the configuration chooses it and the pattern-based one when the
\* configuration chooses that, whatever the evidence; without a choice it runs
\* the structural transformer iff there is evidence of TypeScript
C25_ExplicitChoiceWins ==
  selector.called = "transform" =>
    LET ts == ChoosesTypeScript(selector.advanced)
        js == ChoosesJavaScript(selector.advanced)
    IN /\ ts /\ ~js => selector.transformer = "typescript"
       /\ js /\ ~ts => selector.transformer = "javascript"
       /\ ~ts /\ ~js => (selector.transformer = "typescript" <=> TypeScriptEvidence(selector))

(***************************************************************************)
(* Properties of the last step of the classifier                           *)
(***************************************************************************)
\* the text passes the checks before the last step: the length, the
\* technical terms, the numbers, the paths, the rules of severity error and
\* the custom patterns
PassesFirstChecks(text, v) == \A k \in 1..8 : ~CheckFails(CheckOrder[k], text, v)

\* a text with an alphabetic character, the letters of À-ÿ counted, that does
\* not consist of punctuation and symbols only
Alphabetic(text) ==
  /\ \E i \in 1..Len(trim(text)) : Ch(trim(text), i) \in Letter
  /\ ~\A i \in 1..Len(trim(text)) :
        Ch(trim(text), i) \notin Letter \cup Digit \cup {"_"} \cup Space

\* C26: a text that passes the checks before the last step is accepted iff it
\* has an alphabetic character, extended-Latin letters counted, and does not
\* consist of punctuation and symbols only
C26_FinalStep ==
  Classified /\ PassesFirstChecks(validator.last.text, validator.validation)
    => (validator.last.valid <=> Alphabetic(validator.last.text))

(***************************************************************************)
(* Properties of the order of the steps of a run                           *)
(***************************************************************************)
IsPrefix(p, q) == Len(p) <= Len(q) /\ \A i \in 1..Len(p) : p[i] = q[i]

\* the steps of a run over n files, up to the Catalog Writer
StepsOfRun(n) ==
  <<"load">> \o (IF config.createBackup THEN <<"backup">> ELSE <<>>) \o <<"findFiles">>
    \o [k \in 1..n |-> "transformFile"] \o <<"generateTranslationFiles">>

\* the steps of the run so far, up to the Catalog Writer
StepsSoFar == SelectSeq(history.steps, LAMBDA step : step # "generateTypeDefinitions")

\* the Catalog Writer has run in this run
CatalogWriterRan ==
  \E k \in 1..Len(history.steps) : history.steps[k] = "generateTranslationFiles"

\* every file findFiles selected has been through transformFile
AllFilesDone == Len(history.order) = Len(history.start.files)

\* C27: the steps of a run happen in the order load, backup (if enabled),
\* the files one at a time in deduplicated, sorted order and each at most
\* once, then the Catalog Writer, once, on the final registry; no file is
\* modified before the backup is complete or before its turn, and no catalog
\* is written before all files are done
C27_StepOrder ==
  /\ IsPrefix(StepsSoFar, StepsOfRun(Len(history.start.files)))
  /\ \A k, l \in 1..Len(history.order) :
       k < l => StrLess(Paths[history.order[k]], Paths[history.order[l]])
  /\ IsPrefix(history.order, found)
  /\ CatalogWriterRan =>
       AllFilesDone /\ Catalog(config.sourceLanguage) = SourceCatalog(translationKeys, config)
  /\ pc = "done" /\ result.success => CatalogWriterRan
  /\ ~history.edited =>
       /\ \A i \in 1..Len(files) :
            files[i] # history.start.files[i] =>
              /\ \E k \in 1..Len(history.order) : history.order[k] = i
              /\ config.createBackup =>
                   backup.exists /\ backup.files = history.start.files
       /\ locales # history.start.locales => AllFilesDone

\* a successful run of the pattern-based strategy, for which glob.sync gives
\* every file twice, over two files, with a backup, that rewrote a file
C27_Witness ==
  /\ pc = "done"
  /\ result.success
  /\ strategy = "pattern"
  /\ config.createBackup
  /\ history.order = <<1, 2>>
  /\ CatalogWriterRan
  /\ ~history.edited
  /\ files # history.start.files
  /\ locales # history.start.locales

(***************************************************************************)
(* Properties of the catalogs and of the keys                              *)
(***************************************************************************)
\* the run wrote a translation call of key into file i, which it saved
WroteCall(i, key) ==
  /\ i \in history.saved
  /\ includes(files[i].jsx, TranslationCall(key))
  /\ ~includes(history.start.files[i].jsx, TranslationCall(key))

\* C28: when a run has ended, successfully or not, every key of a translation
\* call the run wrote into a saved file is a key of the source catalog on disk
C28_CatalogConsistent ==
  pc = "done" /\ ~history.edited =>
    \A n \in 1..Len(resolveLog) :
      \A i \in 1..Len(files) :
        WroteCall(i, resolveLog[n].key) => ObjHas(Catalog(config.sourceLanguage), resolveLog[n].key)

\* C29: every key getOrCreateKey gives for a text is a non-empty string,
\* under every key strategy
C29_KeysNonEmpty ==
  /\ \A n \in 1..Len(resolveLog) : resolveLog[n].key # ""
  /\ \A k \in 1..Len(translationKeys) : translationKeys[k].key # ""
  /\ ~ObjHas(Catalog(config.sourceLanguage), "")

(***************************************************************************)
(* Properties of the transformation switches                               *)
(***************************************************************************)
\* text is the text of an element, or the value of an attribute, of a file as
\* the run found it
IsElementText(text) ==
  \E i \in 1..Len(files) : includes(history.start.files[i].jsx, ">" \o text \o "<")

IsAttributeValue(text) ==
  \E i \in 1..Len(files) : includes(history.start.files[i].jsx, "=\"" \o text \o "\"")

\* C30: with extractJSXText off no element text is registered or replaced,
\* and with extractAttributes off no attribute value is
C30_SwitchesHonoured ==
  \A n \in 1..Len(resolveLog) :
    /\ ~config.extractJSXText => ~IsElementText(resolveLog[n].text)
    /\ ~config.extractAttributes => ~IsAttributeValue(resolveLog[n].text)
====
